---- MODULE Spec2Model ----
(***************************************************************************)
(* Model of the social-post synthesis functions of functions/src/index.ts  *)
(* (DuplicateDetector, LocationInferencer, GeminiSynthesizer, the          *)
(* synthesizeSocialPosts trigger, the parser of GeminiImageAnalyzer) and   *)
(* of the sentiment sweep of functions/src/sentimentHeatmap.ts.            *)
(*                                                                         *)
(* Representation                                                          *)
(*   - a text is a sequence of one-character strings;                      *)
(*   - a timestamp is Date.getTime(), an integer number of milliseconds;   *)
(*   - a location is a position in whole metres along one meridian, so     *)
(*     geolib's getDistance (which rounds to whole metres) is the absolute *)
(*     difference and getCenterOfBounds is the midpoint of the extent;     *)
(*   - a JavaScript number that need not be an integer is a fraction       *)
(*     [n |-> numerator, d |-> denominator] with d > 0, compared by cross  *)
(*     multiplication; NaN is the fraction with d = 0.                     *)
(*                                                                         *)
(* Specifications                                                          *)
(*   SpecDup    detectDuplicates, one outer-loop iteration per step        *)
(*   SpecPure   one call of calculateTextSimilarity, areDuplicates or      *)
(*              inferCentralLocation                                       *)
(*   SpecSynth  one run of the synthesizeSocialPosts trigger               *)
(*   SpecSentiment  one call of determineTrend, parseSentimentResponse or  *)
(*              parseAnalysisResponse (functions/src/sentimentHeatmap.ts,  *)
(*              GeminiImageAnalyzer)                                       *)
(*   SpecSweep  the scheduled runs of updateSentimentHeatmap, one after    *)
(*              the other                                                  *)
(*   SpecAlerts one call of checkForSentimentAlerts                        *)
(*   SpecImage  one run of the analyzeUploadedImage trigger                *)
(*   SpecManual one call of analyzeSentimentManually                       *)
(*   SpecOverlap two runs of the sweep under way at one time               *)
(***************************************************************************)
EXTENDS Integers, Sequences, FiniteSets, TLC

VARIABLES
    posts,      \* the SocialMediaPost[] the operation under study is given
    pc,         \* control position of the operation under study
    ret,        \* what a called function returned (or threw)
    idx,        \* detectDuplicates: position of the outer loop in posts
    processed,  \* detectDuplicates: the Set<string> of processed ids
    groups,     \* detectDuplicates: the groups pushed so far
    response,   \* synthesizePosts: what the collaborator (Gemini) answered
    events,     \* Firestore collection 'events'
    logs,       \* Firestore collection 'aiProcessingLogs'
    run,        \* updateSentimentHeatmap: the number of the scheduled run
    current,    \* updateSentimentHeatmap: the area being processed;
                \* analyzeSentimentManually: the arguments and the query results
    sentimentResults,  \* updateSentimentHeatmap: the results pushed so far
    heatmap,    \* Firestore collection 'sentimentHeatmap', by document id
    alerts,     \* Firestore collection 'sentimentAlerts'
    object,     \* analyzeUploadedImage: the finalized storage object
    analysisResult,    \* analyzeUploadedImage: what analyzeImage returned
    moderationResult,  \* analyzeUploadedImage: what checkImageSafety returned
    notifications,     \* Firestore collection 'notifications'
    invocations        \* updateSentimentHeatmap: the runs under way at one time

\* the variables of the sentiment sweep alone
sweepVars == <<run, current, sentimentResults, heatmap, alerts>>

\* the variables of the analyzeUploadedImage trigger alone
imageVars == <<object, analysisResult, moderationResult, notifications>>

vars ==
    <<posts, pc, ret, idx, processed, groups, response, events, logs, sweepVars,
      imageVars, invocations>>

\* the variables of the synthesizeSocialPosts trigger alone
triggerVars == <<response, events, logs>>

Range(s) == {s[k] : k \in DOMAIN s}

Min(S) == CHOOSE x \in S : \A y \in S : x <= y

Max(S) == CHOOSE x \in S : \A y \in S : x >= y

Abs(x) == IF x < 0 THEN -x ELSE x

(***************************************************************************)
(* Fractions                                                               *)
(***************************************************************************)
Frac(n, d) == [n |-> n, d |-> d]

FracEq(a, b) == a.n * b.d = b.n * a.d

FracLeq(a, b) == a.n * b.d <= b.n * a.d

FracLt(a, b) == a.n * b.d < b.n * a.d

FracMax(a, b) == IF FracLeq(a, b) THEN b ELSE a

FracMin(a, b) == IF FracLeq(a, b) THEN a ELSE b

FracSub(a, b) == Frac(a.n * b.d - b.n * a.d, a.d * b.d)

FracMul(a, b) == Frac(a.n * b.n, a.d * b.d)

(***************************************************************************)
(* Characters                                                              *)
(***************************************************************************)
UpperCase ==
    <<"A", "B", "C", "D", "E", "F", "G", "H", "I", "J", "K", "L", "M",
      "N", "O", "P", "Q", "R", "S", "T", "U", "V", "W", "X", "Y", "Z">>

LowerCase ==
    <<"a", "b", "c", "d", "e", "f", "g", "h", "i", "j", "k", "l", "m",
      "n", "o", "p", "q", "r", "s", "t", "u", "v", "w", "x", "y", "z">>

Digits == {"0", "1", "2", "3", "4", "5", "6", "7", "8", "9"}

\* \w of the regular expressions: [A-Za-z0-9_]
WordChars == Range(UpperCase) \cup Range(LowerCase) \cup Digits \cup {"_"}

IsWordChar(c) == c \in WordChars

\* \s of the regular expressions
IsWhitespace(c) == c \in {" ", "\t", "\n"}

(***************************************************************************)
(* DuplicateDetector.normalizeText and calculateTextSimilarity             *)
(***************************************************************************)
UpperChars == Range(UpperCase)

toLowerCaseChar(c) ==
    IF c \in UpperChars
    THEN LowerCase[CHOOSE k \in DOMAIN UpperCase : UpperCase[k] = c]
    ELSE c

\* text.toLowerCase()
toLowerCase(text) == [k \in 1..Len(text) |-> toLowerCaseChar(text[k])]

KeepChar(c) == IsWordChar(c) \/ IsWhitespace(c)

\* .replace(/[^\w\s]/g, '')
stripNonWord(text) == SelectSeq(text, KeepChar)

RECURSIVE dropLeadingWhitespace(_)
dropLeadingWhitespace(text) ==
    IF text # <<>> /\ IsWhitespace(Head(text))
    THEN dropLeadingWhitespace(Tail(text))
    ELSE text

\* .replace(/\s+/g, ' '): every maximal run of whitespace becomes one space
RECURSIVE collapseWhitespace(_)
collapseWhitespace(text) ==
    IF text = <<>> THEN <<>>
    ELSE IF IsWhitespace(Head(text))
         THEN <<" ">> \o collapseWhitespace(dropLeadingWhitespace(text))
         ELSE <<Head(text)>> \o collapseWhitespace(Tail(text))

RECURSIVE dropTrailingWhitespace(_)
dropTrailingWhitespace(text) ==
    IF text # <<>> /\ IsWhitespace(text[Len(text)])
    THEN dropTrailingWhitespace(SubSeq(text, 1, Len(text) - 1))
    ELSE text

\* .trim()
trim(text) == dropTrailingWhitespace(dropLeadingWhitespace(text))

normalizeText(text) == trim(collapseWhitespace(stripNonWord(toLowerCase(text))))

\* String.prototype.split(' '): the pieces between single spaces; a string
\* without a space, the empty string included, gives one piece (itself).
RECURSIVE split(_)
split(text) ==
    IF \A k \in DOMAIN text : text[k] # " "
    THEN <<text>>
    ELSE LET k == Min({m \in DOMAIN text : text[m] = " "})
         IN  <<SubSeq(text, 1, k - 1)>> \o split(SubSeq(text, k + 1, Len(text)))

\* intersection.size / union.size as a fraction
calculateTextSimilarity(text1, text2) ==
    LET words1 == split(normalizeText(text1))
        words2 == split(normalizeText(text2))
        set1 == Range(words1)
        set2 == Range(words2)
        intersection == {x \in set1 : x \in set2}
        union == set1 \cup set2
    IN  Frac(Cardinality(intersection), Cardinality(union))

(***************************************************************************)
(* DuplicateDetector.areDuplicates                                         *)
(***************************************************************************)
LOCATION_THRESHOLD == 500

TIME_THRESHOLD == 3600000

\* TEXT_SIMILARITY_THRESHOLD = 0.7 as the fraction 7/10
TEXT_SIMILARITY_THRESHOLD == Frac(7, 10)

\* geolib getDistance on two positions of one meridian, in whole metres
getDistance(from, to) == Abs(from - to)

NoLocation == [present |-> FALSE, latitude |-> 0]

\* a location m metres north of the reference point
Located(m) == [present |-> TRUE, latitude |-> m]

\* areDuplicates with the time proximity check left out
areDuplicates_noTimeCheck(post1, post2) ==
    IF /\ post1.location.present
       /\ post2.location.present
       /\ getDistance(post1.location.latitude, post2.location.latitude)
              > LOCATION_THRESHOLD
    THEN FALSE
    ELSE FracLeq(TEXT_SIMILARITY_THRESHOLD,
                 calculateTextSimilarity(post1.text, post2.text))

\* areDuplicates rejecting a time difference of exactly TIME_THRESHOLD
areDuplicates_strictTime(post1, post2) ==
    IF Abs(post1.timestamp - post2.timestamp) >= TIME_THRESHOLD THEN FALSE
    ELSE IF /\ post1.location.present
            /\ post2.location.present
            /\ getDistance(post1.location.latitude, post2.location.latitude)
                   > LOCATION_THRESHOLD
         THEN FALSE
         ELSE FracLeq(TEXT_SIMILARITY_THRESHOLD,
                      calculateTextSimilarity(post1.text, post2.text))

\* areDuplicates with the text similarity check left out
areDuplicates_noTextCheck(post1, post2) ==
    IF Abs(post1.timestamp - post2.timestamp) > TIME_THRESHOLD THEN FALSE
    ELSE ~(/\ post1.location.present
           /\ post2.location.present
           /\ getDistance(post1.location.latitude, post2.location.latitude)
                  > LOCATION_THRESHOLD)

areDuplicates(post1, post2) ==
    LET timeDiff == Abs(post1.timestamp - post2.timestamp)
    IN  IF timeDiff > TIME_THRESHOLD THEN FALSE
        ELSE IF /\ post1.location.present
                /\ post2.location.present
                /\ getDistance(post1.location.latitude, post2.location.latitude)
                       > LOCATION_THRESHOLD
             THEN FALSE
             ELSE LET similarity == calculateTextSimilarity(post1.text, post2.text)
                  IN  FracLeq(TEXT_SIMILARITY_THRESHOLD, similarity)

(***************************************************************************)
(* DuplicateDetector.detectDuplicates                                      *)
(***************************************************************************)
\* absorb comparing each post with the member absorbed last, not with the seed
RECURSIVE absorb_chain(_, _, _, _, _)
absorb_chain(all, post, k, duplicateGroup, done) ==
    IF k > Len(all)
    THEN [group |-> duplicateGroup, processed |-> done]
    ELSE LET otherPost == all[k]
             last == all[CHOOSE j \in DOMAIN all :
                            all[j].id = duplicateGroup[Len(duplicateGroup)]]
         IN  IF otherPost.id \in done \/ post.id = otherPost.id
             THEN absorb_chain(all, post, k + 1, duplicateGroup, done)
             ELSE IF areDuplicates(last, otherPost)
                  THEN absorb_chain(all, post, k + 1,
                                    Append(duplicateGroup, otherPost.id),
                                    done \cup {otherPost.id})
                  ELSE absorb_chain(all, post, k + 1, duplicateGroup, done)

\* absorb comparing each post with every member absorbed so far
RECURSIVE absorb_transitive(_, _, _, _, _)
absorb_transitive(all, post, k, duplicateGroup, done) ==
    IF k > Len(all)
    THEN [group |-> duplicateGroup, processed |-> done]
    ELSE LET otherPost == all[k]
         IN  IF otherPost.id \in done \/ post.id = otherPost.id
             THEN absorb_transitive(all, post, k + 1, duplicateGroup, done)
             ELSE IF \E m \in DOMAIN duplicateGroup :
                        \E j \in DOMAIN all :
                            /\ all[j].id = duplicateGroup[m]
                            /\ areDuplicates(all[j], otherPost)
                  THEN absorb_transitive(all, post, k + 1,
                                         Append(duplicateGroup, otherPost.id),
                                         done \cup {otherPost.id})
                  ELSE absorb_transitive(all, post, k + 1, duplicateGroup, done)

\* The inner for-loop over all posts from position k on, for the seed `post`:
\* the group and the processed set it ends with.
RECURSIVE absorb(_, _, _, _, _)
absorb(all, post, k, duplicateGroup, done) ==
    IF k > Len(all)
    THEN [group |-> duplicateGroup, processed |-> done]
    ELSE LET otherPost == all[k]
         IN  IF otherPost.id \in done \/ post.id = otherPost.id
             THEN absorb(all, post, k + 1, duplicateGroup, done)
             ELSE IF areDuplicates(post, otherPost)
                  THEN absorb(all, post, k + 1,
                              Append(duplicateGroup, otherPost.id),
                              done \cup {otherPost.id})
                  ELSE absorb(all, post, k + 1, duplicateGroup, done)

\* outerIteration pushing every group, the groups of one member included
outerIteration_keepSingletons(all, s) ==
    LET post == all[s.idx]
    IN  IF post.id \in s.processed
        THEN [s EXCEPT !.idx = @ + 1]
        ELSE LET r == absorb(all, post, 1, <<post.id>>, s.processed \cup {post.id})
             IN  [idx |-> s.idx + 1,
                  processed |-> r.processed,
                  groups |-> Append(s.groups, r.group)]

\* One iteration of the outer for-loop on the loop state s.
outerIteration(all, s) ==
    LET post == all[s.idx]
    IN  IF post.id \in s.processed
        THEN [s EXCEPT !.idx = @ + 1]
        ELSE LET r == absorb(all, post, 1, <<post.id>>, s.processed \cup {post.id})
             IN  [idx |-> s.idx + 1,
                  processed |-> r.processed,
                  groups |-> IF Len(r.group) > 1
                             THEN Append(s.groups, r.group)
                             ELSE s.groups]

RECURSIVE outerLoop(_, _)
outerLoop(all, s) ==
    IF s.idx > Len(all) THEN s ELSE outerLoop(all, outerIteration(all, s))

detectDuplicates(all) ==
    outerLoop(all, [idx |-> 1, processed |-> {}, groups |-> <<>>]).groups

(***************************************************************************)
(* LocationInferencer.inferCentralLocation                                 *)
(***************************************************************************)
Throw(message) == [threw |-> TRUE, error |-> message]

Value(val) == [threw |-> FALSE, val |-> val]

HasLocation(post) == post.location.present

RECURSIVE Sum(_)
Sum(s) == IF s = <<>> THEN 0 ELSE Head(s) + Sum(Tail(s))

\* geolib getCenterOfBounds: the middle of the extent of the points
getCenterOfBounds(bounds) ==
    LET minLat == Min(Range(bounds))
        maxLat == Max(Range(bounds))
    IN  minLat + (maxLat - minLat) \div 2

\* the estimate of two or more located posts
spreadEstimate(locatedPosts, floor) ==
    LET bounds == [k \in 1..Len(locatedPosts) |-> locatedPosts[k].location.latitude]
        center == getCenterOfBounds(bounds)
        distances == [k \in 1..Len(bounds) |-> getDistance(center, bounds[k])]
        avgDistance == Frac(Sum(distances), Len(distances))
        maxDistance == Max(Range(distances))
        raw == FracSub(Frac(1, 1), Frac(maxDistance, 5000))
    IN  Value([latitude |-> center,
               confidence |-> IF floor THEN FracMax(Frac(1, 10), raw) ELSE raw,
               radius |-> FracMax(FracMul(avgDistance, Frac(3, 2)), Frac(500, 1))])

\* inferCentralLocation without the branch for a single located post
inferCentralLocation_noSingleCase(all) ==
    LET locatedPosts == SelectSeq(all, HasLocation)
    IN  IF Len(locatedPosts) = 0
        THEN Throw("No posts with location data")
        ELSE spreadEstimate(locatedPosts, TRUE)

\* inferCentralLocation without the 0.1 floor of the confidence
inferCentralLocation_noFloor(all) ==
    LET locatedPosts == SelectSeq(all, HasLocation)
    IN  IF Len(locatedPosts) = 0
        THEN Throw("No posts with location data")
        ELSE IF Len(locatedPosts) = 1
        THEN Value([latitude |-> locatedPosts[1].location.latitude,
                    confidence |-> Frac(1, 2),
                    radius |-> Frac(1000, 1)])
        ELSE spreadEstimate(locatedPosts, FALSE)

\* inferCentralLocation answering an empty estimate instead of throwing
inferCentralLocation_noThrow(all) ==
    LET locatedPosts == SelectSeq(all, HasLocation)
    IN  IF Len(locatedPosts) = 0
        THEN Value([latitude |-> 0, confidence |-> Frac(0, 1), radius |-> Frac(500, 1)])
        ELSE IF Len(locatedPosts) = 1
        THEN Value([latitude |-> locatedPosts[1].location.latitude,
                    confidence |-> Frac(1, 2),
                    radius |-> Frac(1000, 1)])
        ELSE spreadEstimate(locatedPosts, TRUE)

inferCentralLocation(all) ==
    LET locatedPosts == SelectSeq(all, HasLocation)
    IN  IF Len(locatedPosts) = 0
        THEN Throw("No posts with location data")
        ELSE IF Len(locatedPosts) = 1
        THEN Value([latitude |-> locatedPosts[1].location.latitude,
                    confidence |-> Frac(1, 2),
                    radius |-> Frac(1000, 1)])
        ELSE LET bounds == [k \in 1..Len(locatedPosts) |->
                               locatedPosts[k].location.latitude]
                 center == getCenterOfBounds(bounds)
                 distances == [k \in 1..Len(bounds) |-> getDistance(center, bounds[k])]
                 avgDistance == Frac(Sum(distances), Len(distances))
                 maxDistance == Max(Range(distances))
                 confidence == FracMax(Frac(1, 10),
                                       FracSub(Frac(1, 1), Frac(maxDistance, 5000)))
             IN  Value([latitude |-> center,
                        confidence |-> confidence,
                        radius |-> FracMax(FracMul(avgDistance, Frac(3, 2)),
                                           Frac(500, 1))])

(***************************************************************************)
(* Inputs                                                                  *)
(***************************************************************************)
\* longest post list given to detectDuplicates and inferCentralLocation
MaxPosts == 3

Post(id, text, timestamp, location) ==
    [id |-> id, text |-> text, timestamp |-> timestamp, location |-> location]

\* Post lists of length 0..n with fields drawn from `pool`; the id of a post
\* is its position, so ids are unique.
PostLists(pool, n) ==
    {[k \in DOMAIN f |-> Post(k, f[k].text, f[k].timestamp, f[k].location)] :
        f \in UNION {[1..m -> pool] : m \in 0..n}}

\* "a b c d", "a b c", "a b c d e": similarities 3/4 (S, P), 4/5 (S, Q) and
\* 3/5 (P, Q)
TextS == <<"a", " ", "b", " ", "c", " ", "d">>

TextP == <<"a", " ", "b", " ", "c">>

TextQ == <<"a", " ", "b", " ", "c", " ", "d", " ", "e">>

DupPool ==
    [text : {TextP, TextQ},
     timestamp : {0, 3600000, 7200000},
     location : {NoLocation, Located(0), Located(600)}]

\* The three-post scenario: A and B 10 minutes and about 28 m apart, C 5
\* minutes after A and about 3.2 km away.
TextA ==
    <<"T", "r", "a", "f", "f", "i", "c", " ", "j", "a", "m", " ", "o", "n",
      " ", "1", "0", "1", " ", "s", "o", "u", "t", "h">>

TextB ==
    <<"H", "u", "g", "e", " ", "b", "a", "c", "k", "u", "p", " ", "o", "n",
      " ", "1", "0", "1", " ", "s", "o", "u", "t", "h", "b", "o", "u", "n", "d">>

TextC ==
    <<"U", "n", "r", "e", "l", "a", "t", "e", "d", " ", "s", "t", "r", "e",
      "e", "t", " ", "f", "a", "i", "r", " ", "d", "o", "w", "n", "t", "o",
      "w", "n">>

ScenarioPosts ==
    <<Post(1, TextA, 0, Located(0)),
      Post(2, TextB, 600000, Located(28)),
      Post(3, TextC, 300000, Located(3161))>>

\* Five posts of one text at one place, 1 hour and 2 hours apart: the first
\* is within the hour of the second and the third, the fourth of the third
\* and the fifth only.
ChainPosts ==
    <<Post(1, TextP, 3600000, Located(0)),
      Post(2, TextP, 0, Located(0)),
      Post(3, TextP, 7200000, Located(0)),
      Post(4, TextP, 10800000, Located(0)),
      Post(5, TextP, 10800000, Located(0))>>

DupInputs == PostLists(DupPool, MaxPosts) \cup {ScenarioPosts, ChainPosts}

NoReturn == [op |-> "none", threw |-> FALSE]

NoResponse == [status |-> "none", text |-> <<>>]

\* the trigger has not run: no response, empty collections
TriggerIdle ==
    /\ response = NoResponse
    /\ events = <<>>
    /\ logs = <<>>

\* the sentiment sweep has not run
SweepIdle ==
    /\ run = 0
    /\ current = <<>>
    /\ sentimentResults = <<>>
    /\ heatmap = <<>>
    /\ alerts = <<>>

\* a value that is not there yet
None == [type |-> "none"]

\* the image trigger has not run
ImageIdle ==
    /\ object = None
    /\ analysisResult = None
    /\ moderationResult = None
    /\ notifications = <<>>

\* no run of the sweep is followed side by side with another
OverlapIdle == invocations = <<>>

Return(op, val) == [op |-> op, threw |-> FALSE, val |-> val]

(***************************************************************************)
(* SpecDup: detectDuplicates, one outer-loop iteration per step            *)
(***************************************************************************)
InitDup ==
    /\ posts \in DupInputs
    /\ pc = "loop"
    /\ ret = NoReturn
    /\ idx = 1
    /\ processed = {}
    /\ groups = <<>>
    /\ TriggerIdle
    /\ OverlapIdle
    /\ ImageIdle
    /\ SweepIdle

LoopState == [idx |-> idx, processed |-> processed, groups |-> groups]

\* line 63: the post was absorbed by an earlier seed
SkipProcessed ==
    /\ pc = "loop"
    /\ idx <= Len(posts)
    /\ posts[idx].id \in processed
    /\ idx' = idx + 1
    /\ UNCHANGED <<imageVars, invocations, posts, pc, ret, processed, groups, triggerVars, sweepVars>>

\* lines 65-79: the post opens a group and absorbs the duplicates of itself
OpenGroup ==
    /\ pc = "loop"
    /\ idx <= Len(posts)
    /\ posts[idx].id \notin processed
    /\ LET s == outerIteration(posts, LoopState)
       IN  /\ idx' = s.idx
           /\ processed' = s.processed
           /\ groups' = s.groups
    /\ UNCHANGED <<imageVars, invocations, posts, pc, ret, triggerVars, sweepVars>>

\* line 82
ReturnGroups ==
    /\ pc = "loop"
    /\ idx > Len(posts)
    /\ pc' = "returned"
    /\ ret' = Return("detectDuplicates", groups)
    /\ UNCHANGED <<imageVars, invocations, posts, idx, processed, groups, triggerVars, sweepVars>>

NextDup == SkipProcessed \/ OpenGroup \/ ReturnGroups

SpecDup == InitDup /\ [][NextDup]_vars

(***************************************************************************)
(* SpecPure: one call of calculateTextSimilarity, areDuplicates or         *)
(* inferCentralLocation on inputs drawn from bounded sets                  *)
(***************************************************************************)
\* longest text of the exhaustively enumerated texts
MaxTextLen == 2

\* an upper-case and a lower-case letter, a space and a punctuation mark
Alphabet == {"a", "B", " ", "!"}

Texts == UNION {[1..m -> Alphabet] : m \in 0..MaxTextLen}

\* "a b c d e f g h i j" and "a b c d e f g": similarity exactly 7/10
TextTen ==
    <<"a", " ", "b", " ", "c", " ", "d", " ", "e", " ", "f", " ", "g", " ",
      "h", " ", "i", " ", "j">>

TextSeven == <<"a", " ", "b", " ", "c", " ", "d", " ", "e", " ", "f", " ", "g">>

PairPool ==
    [text : {<<>>, <<"!", "?">>, TextS, TextP, TextQ, TextTen, TextSeven},
     timestamp : {0, 3600000, 3600001},
     location : {NoLocation, Located(0), Located(500), Located(501)}]

PairInputs ==
    {<<Post(1, a.text, a.timestamp, a.location),
       Post(2, b.text, b.timestamp, b.location)>> : a \in PairPool, b \in PairPool}

TextInputs ==
    {<<Post(1, a, 0, NoLocation), Post(2, b, 0, NoLocation)>> : a \in Texts, b \in Texts}

LocPool ==
    [text : {<<>>},
     timestamp : {0},
     location : {NoLocation, Located(0), Located(400), Located(1000),
                 Located(9000), Located(12000)}]

LocInputs == PostLists(LocPool, MaxPosts)

PureInputs == PairInputs \cup TextInputs \cup LocInputs

InitPure ==
    /\ posts \in PureInputs
    /\ pc = "ready"
    /\ ret = NoReturn
    /\ idx = 1
    /\ processed = {}
    /\ groups = <<>>
    /\ TriggerIdle
    /\ OverlapIdle
    /\ ImageIdle
    /\ SweepIdle

CallCalculateTextSimilarity ==
    /\ pc = "ready"
    /\ Len(posts) = 2
    /\ pc' = "returned"
    /\ ret' = Return("calculateTextSimilarity",
                     calculateTextSimilarity(posts[1].text, posts[2].text))
    /\ UNCHANGED <<imageVars, invocations, posts, idx, processed, groups, triggerVars, sweepVars>>

CallAreDuplicates ==
    /\ pc = "ready"
    /\ Len(posts) = 2
    /\ pc' = "returned"
    /\ ret' = Return("areDuplicates", areDuplicates(posts[1], posts[2]))
    /\ UNCHANGED <<imageVars, invocations, posts, idx, processed, groups, triggerVars, sweepVars>>

CallInferCentralLocation ==
    /\ pc = "ready"
    /\ pc' = "returned"
    /\ ret' = [op |-> "inferCentralLocation"] @@ inferCentralLocation(posts)
    /\ UNCHANGED <<imageVars, invocations, posts, idx, processed, groups, triggerVars, sweepVars>>

NextPure ==
    CallCalculateTextSimilarity \/ CallAreDuplicates \/ CallInferCentralLocation

SpecPure == InitPure /\ [][NextPure]_vars

(***************************************************************************)
(* GeminiSynthesizer.parseGeminiResponse                                   *)
(*                                                                         *)
(* A response is a sequence of tokens: a run of prose without braces, an   *)
(* opening brace, a closing brace, or one "key": value member of a JSON    *)
(* object (the commas between members are not represented).  A JSON value  *)
(* is undefined (the key is absent), null, a number or a string.           *)
(***************************************************************************)
Prose == [kind |-> "prose"]

Open == [kind |-> "{"]

Close == [kind |-> "}"]

Member(key, value) == [kind |-> "member", key |-> key, value |-> value]

Undefined == [type |-> "undefined"]

Null == [type |-> "null"]

Num(n, d) == [type |-> "number", num |-> Frac(n, d)]

Str(str) == [type |-> "string", str |-> str]

\* NaN: the fraction with denominator 0
NaN == Frac(0, 0)

IsNaN(x) == x.d = 0

\* response.match(/\{[\s\S]*\}/): from the first opening brace to the last
\* closing brace after it
match(text) ==
    LET opens == {k \in DOMAIN text : text[k].kind = "{"}
    IN  IF opens = {}
        THEN [found |-> FALSE, text |-> <<>>]
        ELSE LET first == Min(opens)
                 closes == {k \in DOMAIN text : k > first /\ text[k].kind = "}"}
             IN  IF closes = {}
                 THEN [found |-> FALSE, text |-> <<>>]
                 ELSE [found |-> TRUE, text |-> SubSeq(text, first, Max(closes))]

\* JSON.parse of a text that starts with an opening and ends with a closing
\* brace: the members between them, or a SyntaxError when anything else
\* stands between them
JSONparse(text) ==
    IF \A k \in 2..(Len(text) - 1) : text[k].kind = "member"
    THEN Value(SubSeq(text, 2, Len(text) - 1))
    ELSE Throw("SyntaxError")

\* parsed[key]: of several members with one key the last one counts
get(parsed, key) ==
    LET at == {k \in DOMAIN parsed : parsed[k].key = key}
    IN  IF at = {} THEN Undefined ELSE parsed[Max(at)].value

\* ToBoolean
Truthy(v) ==
    CASE v.type = "undefined" -> FALSE
      [] v.type = "null" -> FALSE
      [] v.type = "number" -> ~IsNaN(v.num) /\ v.num.n # 0
      [] v.type = "string" -> v.str # ""

\* value || fallback
orElse(v, fallback) == IF Truthy(v) THEN v ELSE fallback

\* ToNumber; the strings of the model are not numerals
ToNumber(v) ==
    CASE v.type = "undefined" -> NaN
      [] v.type = "null" -> Frac(0, 1)
      [] v.type = "number" -> v.num
      [] v.type = "string" -> IF v.str = "" THEN Frac(0, 1) ELSE NaN

\* Math.min
MathMin(a, b) ==
    IF IsNaN(ToNumber(a)) \/ IsNaN(ToNumber(b))
    THEN NaN
    ELSE FracMin(ToNumber(a), ToNumber(b))

\* parseGeminiResponse with a fallback event in place of the throw when the
\* response holds no parseable JSON object
parseGeminiResponse_fallbackEvent(text, all, duplicateGroups) ==
    LET jsonMatch == match(text)
        json == IF jsonMatch.found THEN JSONparse(jsonMatch.text)
                                   ELSE Throw("No JSON found in response")
        locationData == inferCentralLocation(all)
        parsed == IF json.threw THEN <<>> ELSE json.val
    IN  IF locationData.threw
        THEN Throw("Invalid response format from Gemini API")
        ELSE Value(
            [title |-> orElse(get(parsed, "title"), Str("Synthesized City Event")),
             eventType |-> orElse(get(parsed, "eventType"), Str("emergency")),
             severity |-> orElse(get(parsed, "severity"), Str("medium")),
             confidence |->
                 MathMin(orElse(get(parsed, "confidence"), Num(7, 10)),
                         [type |-> "number", num |-> locationData.val.confidence]),
             latitude |-> locationData.val.latitude,
             affectedRadius |-> locationData.val.radius,
             sourcePostIds |-> [k \in DOMAIN all |-> all[k].id],
             duplicateGroups |-> duplicateGroups])

parseGeminiResponse(text, all, duplicateGroups) ==
    LET jsonMatch == match(text)
    IN  IF ~jsonMatch.found
        THEN Throw("Invalid response format from Gemini API")
        ELSE LET json == JSONparse(jsonMatch.text)
                 locationData == inferCentralLocation(all)
             IN  IF json.threw \/ locationData.threw
                 THEN Throw("Invalid response format from Gemini API")
                 ELSE LET parsed == json.val
                      IN  Value(
                          [title |-> orElse(get(parsed, "title"),
                                            Str("Synthesized City Event")),
                           eventType |-> orElse(get(parsed, "eventType"),
                                                Str("emergency")),
                           severity |-> orElse(get(parsed, "severity"), Str("medium")),
                           confidence |->
                               MathMin(orElse(get(parsed, "confidence"), Num(7, 10)),
                                       [type |-> "number",
                                        num |-> locationData.val.confidence]),
                           latitude |-> locationData.val.latitude,
                           affectedRadius |-> locationData.val.radius,
                           sourcePostIds |-> [k \in DOMAIN all |-> all[k].id],
                           duplicateGroups |-> duplicateGroups])

(***************************************************************************)
(* SpecSynth: the synthesizeSocialPosts trigger on one cluster             *)
(***************************************************************************)
SynthPool ==
    [text : {TextP},
     timestamp : {0, 7200000},
     location : {NoLocation, Located(0), Located(12000)}]

SynthInputs == PostLists(SynthPool, MaxPosts)

\* what the collaborator may report as confidence
Confidences ==
    {Undefined, Null, Str("high"), Num(-1, 2), Num(0, 1), Num(3, 10), Num(9, 10),
     Num(1, 1), Num(3, 2)}

Object(members) == <<Open>> \o members \o <<Close>>

\* a member for each defined value
Members(key, value) ==
    IF value.type = "undefined" THEN <<>> ELSE <<Member(key, value)>>

Responses ==
    \* one object, the confidence varying
    {Object(Members("confidence", c)) : c \in Confidences}
    \* one object, the event type and the severity varying
    \cup {Object(Members("eventType", t) \o Members("severity", v)
                 \o <<Member("confidence", Num(9, 10))>>) :
            t \in {Undefined, Str("traffic"), Str("riot")},
            v \in {Undefined, Str("high"), Str("extreme")}}
    \* prose around one object
    \cup {before \o Object(<<Member("confidence", Num(3, 10))>>) \o after :
            before \in {<<>>, <<Prose>>},
            after \in {<<>>, <<Prose>>, <<Prose, Open>>, <<Prose, Close>>,
                       <<Open, Prose, Close>>}}
    \* no object at all
    \cup {<<>>, <<Prose>>, <<Open, Prose>>, <<Close, Prose, Open>>}

InitSynth ==
    /\ posts \in SynthInputs
    /\ pc = "start"
    /\ ret = NoReturn
    /\ idx = 1
    /\ processed = {}
    /\ groups = <<>>
    /\ TriggerIdle
    /\ OverlapIdle
    /\ ImageIdle
    /\ SweepIdle

\* lines 281-284: fewer than 3 posts, nothing is done
InsufficientPosts ==
    /\ pc = "start"
    /\ Len(posts) < 3
    /\ pc' = "done"
    /\ UNCHANGED <<imageVars, invocations, posts, ret, idx, processed, groups, triggerVars, sweepVars>>

\* lines 287-293
DetectDuplicates ==
    /\ pc = "start"
    /\ Len(posts) >= 3
    /\ groups' = detectDuplicates(posts)
    /\ pc' = "generate"
    /\ UNCHANGED <<imageVars, invocations, posts, ret, idx, processed, triggerVars, sweepVars>>

\* lines 182-184: the collaborator answers some text
GenerateContent ==
    /\ pc = "generate"
    /\ \E text \in Responses : response' = [status |-> "text", text |-> text]
    /\ pc' = "parse"
    /\ UNCHANGED <<imageVars, invocations, posts, ret, idx, processed, groups, events, logs, sweepVars>>

\* lines 182-190: the call of the collaborator fails
GenerateContentFails ==
    /\ pc = "generate"
    /\ response' = [status |-> "error", text |-> <<>>]
    /\ ret' = [op |-> "synthesizePosts"]
              @@ Throw("Failed to synthesize posts with Gemini API")
    /\ pc' = "catch"
    /\ UNCHANGED <<imageVars, invocations, posts, idx, processed, groups, events, logs, sweepVars>>

\* line 186: parseGeminiResponse returns the event
SynthesizeReturns ==
    /\ pc = "parse"
    /\ LET r == parseGeminiResponse(response.text, posts, groups)
       IN  /\ ~r.threw
           /\ ret' = Return("synthesizePosts", r.val)
    /\ pc' = "save"
    /\ UNCHANGED <<imageVars, invocations, posts, idx, processed, groups, triggerVars, sweepVars>>

\* lines 186-190: parseGeminiResponse throws, synthesizePosts rethrows
SynthesizeThrows ==
    /\ pc = "parse"
    /\ parseGeminiResponse(response.text, posts, groups).threw
    /\ ret' = [op |-> "synthesizePosts"]
              @@ Throw("Failed to synthesize posts with Gemini API")
    /\ pc' = "catch"
    /\ UNCHANGED <<imageVars, invocations, posts, idx, processed, groups, triggerVars, sweepVars>>

\* lines 300-337
SaveEvent ==
    /\ pc = "save"
    /\ events' = Append(events,
                        [eventType |-> ret.val.eventType,
                         severity |-> ret.val.severity,
                         source |-> "social",
                         status |-> "active",
                         reportCount |-> Len(posts),
                         confidence |-> ret.val.confidence])
    /\ pc' = "log"
    /\ UNCHANGED <<imageVars, invocations, posts, ret, idx, processed, groups, response, logs, sweepVars>>

\* line 302: the write of the event is rejected
SaveEventFails ==
    /\ pc = "save"
    /\ pc' = "catch"
    /\ UNCHANGED <<imageVars, invocations, posts, ret, idx, processed, groups, triggerVars, sweepVars>>

\* lines 340-356
LogProcessing ==
    /\ pc = "log"
    /\ logs' = Append(logs,
                      [processingType |-> "social_synthesis",
                       confidence |-> ret.val.confidence])
    /\ pc' = "done"
    /\ UNCHANGED <<imageVars, invocations, posts, ret, idx, processed, groups, response, events, sweepVars>>

\* line 340: the write of the log record is rejected
LogProcessingFails ==
    /\ pc = "log"
    /\ pc' = "catch"
    /\ UNCHANGED <<imageVars, invocations, posts, ret, idx, processed, groups, triggerVars, sweepVars>>

\* lines 358-372
LogError ==
    /\ pc = "catch"
    /\ logs' = Append(logs,
                      [processingType |-> "social_synthesis_error",
                       confidence |-> Frac(0, 1)])
    /\ pc' = "done"
    /\ UNCHANGED <<imageVars, invocations, posts, ret, idx, processed, groups, response, events, sweepVars>>

\* line 362: the write of the error record is rejected, the trigger fails
LogErrorFails ==
    /\ pc = "catch"
    /\ pc' = "failed"
    /\ UNCHANGED <<imageVars, invocations, posts, ret, idx, processed, groups, triggerVars, sweepVars>>

NextSynth ==
    \/ InsufficientPosts
    \/ DetectDuplicates
    \/ GenerateContent
    \/ GenerateContentFails
    \/ SynthesizeReturns
    \/ SynthesizeThrows
    \/ SaveEvent
    \/ SaveEventFails
    \/ LogProcessing
    \/ LogProcessingFails
    \/ LogError
    \/ LogErrorFails

SpecSynth == InitSynth /\ [][NextSynth]_vars

(***************************************************************************)
(* functions/src/sentimentHeatmap.ts: SentimentAnalyzer                    *)
(*                                                                         *)
(* A JSON array is the sequence of its items; a string whose length        *)
(* matters (the summary) is, like the text of a post, a sequence of        *)
(* one-character strings.                                                  *)
(***************************************************************************)
Arr(items) == [type |-> "array", items |-> items]

\* a text of n characters c
Repeat(c, n) == [k \in 1..n |-> c]

\* a number as the value of an expression
Number(x) == [type |-> "number", num |-> x]

\* a < b of two numbers: false when either is NaN
Less(a, b) == ~IsNaN(a) /\ ~IsNaN(b) /\ FracLt(a, b)

\* a - b of two numbers
Minus(a, b) == IF IsNaN(a) \/ IsNaN(b) THEN NaN ELSE FracSub(a, b)

\* Math.abs of a number
MathAbs(x) == IF IsNaN(x) THEN NaN ELSE Frac(Abs(x.n), x.d)

\* Math.max
MathMax(a, b) ==
    IF IsNaN(ToNumber(a)) \/ IsNaN(ToNumber(b))
    THEN NaN
    ELSE FracMax(ToNumber(a), ToNumber(b))

\* text.substring(0, n) and items.slice(0, n)
slice(items, n) == SubSeq(items, 1, Min({n, Len(items)}))

FallbackSummary ==
    <<"U", "n", "a", "b", "l", "e", " ", "t", "o", " ", "a", "n", "a", "l",
      "y", "z", "e", " ", "s", "e", "n", "t", "i", "m", "e", "n", "t", " ",
      "-", " ", "m", "a", "n", "u", "a", "l", " ", "r", "e", "v", "i", "e",
      "w", " ", "r", "e", "q", "u", "i", "r", "e", "d">>

getFallbackSentiment ==
    [score |-> Frac(0, 1),
     classification |-> "neutral",
     confidence |-> Frac(3, 10),
     keywords |-> <<>>,
     summary |-> FallbackSummary]

Classifications == {"positive", "neutral", "negative"}

parseSentimentResponse(text) ==
    LET jsonMatch == match(text)
        json == IF jsonMatch.found THEN JSONparse(jsonMatch.text)
                                   ELSE Throw("No JSON found in response")
    IN  IF json.threw
        THEN getFallbackSentiment
        ELSE LET parsed == json.val
                 classification == get(parsed, "classification")
                 keywords == get(parsed, "keywords")
                 summary == get(parsed, "summary")
             IN  [score |->
                      MathMax(Num(-1, 1),
                              Number(MathMin(Num(1, 1),
                                             orElse(get(parsed, "score"),
                                                    Num(0, 1))))),
                  classification |->
                      IF /\ classification.type = "string"
                         /\ classification.str \in Classifications
                      THEN classification.str
                      ELSE "neutral",
                  confidence |->
                      MathMax(Num(0, 1),
                              Number(MathMin(Num(1, 1),
                                             orElse(get(parsed, "confidence"),
                                                    Num(1, 2))))),
                  keywords |-> IF keywords.type = "array"
                               THEN slice(keywords.items, 8)
                               ELSE <<>>,
                  summary |-> IF summary.type = "string"
                              THEN slice(summary.str, 100)
                              ELSE <<>>]

\* what model.generateContent gives: a text, or an error
Answer(text) == [status |-> "text", text |-> text]

NoAnswer == [status |-> "error", text |-> <<>>]

\* the posts and the reports go into the prompt and nowhere else: the
\* sentiment is what the collaborator's answer holds
analyzeCombinedSentiment(socialPosts, userReports, answer) ==
    IF answer.status = "error"
    THEN getFallbackSentiment
    ELSE parseSentimentResponse(answer.text)

\* determineTrend with a difference of exactly 0.1 counted as stable
determineTrend_inclusive(currentScore, previousScore) ==
    LET diff == Minus(currentScore, previousScore)
    IN  IF ~IsNaN(diff) /\ FracLeq(MathAbs(diff), Frac(1, 10))
        THEN "stable"
        ELSE IF Less(Frac(0, 1), diff) THEN "up" ELSE "down"

determineTrend(currentScore, previousScore) ==
    LET diff == Minus(currentScore, previousScore)
    IN  IF Less(MathAbs(diff), Frac(1, 10))
        THEN "stable"
        ELSE IF Less(Frac(0, 1), diff) THEN "up" ELSE "down"

(***************************************************************************)
(* functions/src/index.ts: GeminiImageAnalyzer.parseAnalysisResponse, the  *)
(* validated fields of the ImageAnalysisResult                             *)
(***************************************************************************)
Categories ==
    {"accident", "waterlogging", "celebration", "construction", "fire",
     "protest", "vandalism", "infrastructure", "weather", "other"}

SafetyLevels == {"safe", "caution", "danger", "emergency"}

validateCategory(category) ==
    IF category.type = "string" /\ category.str \in Categories
    THEN category.str
    ELSE "other"

\* parseInt: the integer part of a number; NaN for everything that does
\* not start with digits (the strings of the model are not numerals)
parseInt(v) ==
    IF v.type = "number" /\ ~IsNaN(v.num)
    THEN IF v.num.n >= 0
         THEN Frac(v.num.n \div v.num.d, 1)
         ELSE Frac(-((-v.num.n) \div v.num.d), 1)
    ELSE NaN

validateSeverity(severity) ==
    LET num == parseInt(severity)
    IN  IF IsNaN(num) THEN 2 ELSE Max({1, Min({5, num.n})})

validateSafetyLevel(level) ==
    IF level.type = "string" /\ level.str \in SafetyLevels
    THEN level.str
    ELSE "caution"

\* ToBoolean of a value whose string is kept character by character
TruthyText(v) ==
    IF v.type = "string" THEN v.str # <<>> ELSE Truthy(v)

\* text.substring(0, n)
substring(text, n) == SubSeq(text, 1, Min({n, Len(text)}))

sanitizeText(text) ==
    IF text.type # "string" THEN <<>> ELSE substring(trim(text.str), 500)

DefaultDescription ==
    <<"I", "m", "a", "g", "e", " ", "a", "n", "a", "l", "y", "s", "i", "s",
      " ", "c", "o", "m", "p", "l", "e", "t", "e", "d">>

FallbackDescription ==
    <<"I", "m", "a", "g", "e", " ", "u", "p", "l", "o", "a", "d", "e", "d",
      " ", "b", "y", " ", "u", "s", "e", "r", " ", "-", " ", "m", "a", "n",
      "u", "a", "l", " ", "r", "e", "v", "i", "e", "w", " ", "r", "e", "q",
      "u", "i", "r", "e", "d">>

parseAnalysisResponse(text) ==
    LET jsonMatch == match(text)
        json == IF jsonMatch.found THEN JSONparse(jsonMatch.text)
                                   ELSE Throw("No JSON found in Gemini response")
    IN  IF json.threw
        THEN [description |-> FallbackDescription,
              category |-> "other",
              severityScore |-> 2,
              confidence |-> Frac(3, 10),
              safetyLevel |-> "caution"]
        ELSE LET parsed == json.val
                 description == get(parsed, "description")
             IN  [description |->
                      sanitizeText(IF TruthyText(description)
                                   THEN description
                                   ELSE Str(DefaultDescription)),
                  category |-> validateCategory(get(parsed, "category")),
                  severityScore |-> validateSeverity(get(parsed, "severityScore")),
                  confidence |->
                      MathMax(Num(0, 1),
                              Number(MathMin(Num(1, 1),
                                             orElse(get(parsed, "confidence"),
                                                    Num(7, 10))))),
                  safetyLevel |-> validateSafetyLevel(get(parsed, "safetyLevel"))]

(***************************************************************************)
(* SpecSentiment: one call of determineTrend, parseSentimentResponse or    *)
(* parseAnalysisResponse                                                   *)
(***************************************************************************)
\* scores in hundredths, and NaN
TrendScores ==
    {Frac(k, 100) : k \in {-100, -75, -60, -50, -10, -5, 0, 2, 10, 20, 50, 52,
                           60, 100}}
    \cup {NaN}

ReportedScores ==
    {Undefined, Null, Str("very negative"), Num(-3, 2), Num(-1, 1), Num(-4, 5),
     Num(0, 1), Num(1, 5), Num(9, 10), Num(1, 1), Num(3, 2)}

ReportedConfidences ==
    {Undefined, Str("high"), Num(-1, 2), Num(0, 1), Num(9, 10), Num(3, 2)}

ReportedClassifications ==
    {Undefined, Num(1, 1), Str("positive"), Str("neutral"), Str("negative"),
     Str("mixed")}

ReportedKeywords ==
    {Undefined, Str("none")} \cup {Arr(Repeat(Str("flood"), n)) : n \in {0, 8, 9}}

ReportedSummaries ==
    {Undefined, Num(1, 1)} \cup {Str(Repeat("x", n)) : n \in {0, 99, 100, 101}}

SentimentResponses ==
    \* one object, score, confidence and classification varying
    {Object(Members("score", s) \o Members("confidence", c)
            \o Members("classification", l)) :
        s \in ReportedScores, c \in ReportedConfidences,
        l \in ReportedClassifications}
    \* one object, keywords and summary varying
    \cup {Object(Members("keywords", k) \o Members("summary", m)) :
            k \in ReportedKeywords, m \in ReportedSummaries}
    \* no parseable object
    \cup {<<>>, <<Prose>>, <<Open, Prose>>, <<Open, Prose, Close>>}

ReportedSeverityScores ==
    {Undefined, Null, Str("severe"), Num(-2, 1), Num(0, 1), Num(1, 2), Num(1, 1),
     Num(7, 2), Num(5, 1), Num(6, 1)}

AnalysisResponses ==
    {Object(Members("category", g) \o Members("severityScore", v)
            \o Members("safetyLevel", l) \o Members("confidence", c)) :
        g \in {Undefined, Str("fire"), Str("riot")},
        v \in ReportedSeverityScores,
        l \in {Undefined, Str("danger"), Str("unsafe")},
        c \in ReportedConfidences}
    \cup {<<>>, <<Prose>>, <<Open, Prose>>, <<Open, Prose, Close>>}

InitSentiment ==
    /\ posts = <<>>
    /\ pc = "ready"
    /\ ret = NoReturn
    /\ idx = 1
    /\ processed = {}
    /\ groups = <<>>
    /\ TriggerIdle
    /\ OverlapIdle
    /\ ImageIdle
    /\ SweepIdle

\* sentimentHeatmap.ts line 239
CallDetermineTrend ==
    /\ pc = "ready"
    /\ \E currentScore \in TrendScores, previousScore \in TrendScores :
          ret' = [op |-> "determineTrend",
                  threw |-> FALSE,
                  currentScore |-> currentScore,
                  previousScore |-> previousScore,
                  val |-> determineTrend(currentScore, previousScore)]
    /\ pc' = "returned"
    /\ UNCHANGED <<imageVars, invocations, posts, idx, processed, groups, triggerVars, sweepVars>>

\* sentimentHeatmap.ts line 104
CallParseSentimentResponse ==
    /\ pc = "ready"
    /\ \E text \in SentimentResponses :
          /\ response' = Answer(text)
          /\ ret' = Return("parseSentimentResponse", parseSentimentResponse(text))
    /\ pc' = "returned"
    /\ UNCHANGED <<imageVars, invocations, posts, idx, processed, groups, events, logs, sweepVars>>

\* index.ts line 486
CallParseAnalysisResponse ==
    /\ pc = "ready"
    /\ \E text \in AnalysisResponses :
          /\ response' = Answer(text)
          /\ ret' = Return("parseAnalysisResponse", parseAnalysisResponse(text))
    /\ pc' = "returned"
    /\ UNCHANGED <<imageVars, invocations, posts, idx, processed, groups, events, logs, sweepVars>>

NextSentiment ==
    \/ CallDetermineTrend
    \/ CallParseSentimentResponse
    \/ CallParseAnalysisResponse

SpecSentiment == InitSentiment /\ [][NextSentiment]_vars

(***************************************************************************)
(* functions/src/sentimentHeatmap.ts: updateSentimentHeatmap, the sweep    *)
(* that runs every 15 minutes, one run after the other                     *)
(***************************************************************************)
\* the number of scheduled runs followed
MaxRuns == 2

\* the first two of the six areas of AreaManager; the sweep treats every
\* area alike
CITY_AREAS ==
    <<[name |->
          <<"M", "i", "s", "s", "i", "o", "n", " ", "D", "i", "s", "t",
            "r", "i", "c", "t">>],
      [name |->
          <<"S", "O", "M", "A", " ", "D", "i", "s", "t", "r", "i", "c",
            "t">>]>>

\* .replace(/\s+/g, '_'): every maximal run of whitespace becomes one '_'
RECURSIVE replaceWhitespace(_)
replaceWhitespace(text) ==
    IF text = <<>> THEN <<>>
    ELSE IF IsWhitespace(Head(text))
         THEN <<"_">> \o replaceWhitespace(dropLeadingWhitespace(text))
         ELSE <<Head(text)>> \o replaceWhitespace(Tail(text))

\* the id of the document of an area in 'sentimentHeatmap'
docId(areaName) == toLowerCase(replaceWhitespace(areaName))

DocIds == {docId(CITY_AREAS[k].name) : k \in DOMAIN CITY_AREAS}

\* a document that does not exist, and one that holds data
NoDoc == [exists |-> FALSE]

Doc(data) == [exists |-> TRUE, data |-> data]

\* doc.exists ? doc.data()?.sentiment?.score || 0 : 0, and 0 when the read
\* throws
getPreviousSentiment(doc) ==
    IF doc.threw
    THEN Frac(0, 1)
    ELSE IF doc.val.exists
         THEN orElse(Number(doc.val.data.sentiment.score), Num(0, 1)).num
         ELSE Frac(0, 1)

\* the first alert rule, the confidence left out
isNegativeSentiment_scoreOnly(result) == Less(result.sentiment.score, Frac(-7, 10))

\* result.sentiment.score < -0.7 && result.sentiment.confidence > 0.8
isNegativeSentiment(result) ==
    /\ Less(result.sentiment.score, Frac(-7, 10))
    /\ Less(Frac(8, 10), result.sentiment.confidence)

\* result.trendDirection === 'down' && result.sentiment.score < -0.5
isSentimentDecline(result) ==
    /\ result.trendDirection = "down"
    /\ Less(result.sentiment.score, Frac(-5, 10))

\* the record of an alert; its timestamp is the time of the run
Alert(result, type, severity, timestamp) ==
    [area |-> result.area,
     type |-> type,
     score |-> result.sentiment.score,
     reportCount |-> result.reportCount,
     timestamp |-> timestamp,
     severity |-> severity]

\* add that leaves out an alert of an area and type the collection holds
add_deduplicated(collection, data) ==
    IF \E k \in DOMAIN collection :
          collection[k].area = data.area /\ collection[k].type = data.type
    THEN collection
    ELSE Append(collection, data)

\* collection.add(data)
add(collection, data) == Append(collection, data)

\* the AreaSentiment of lines 241-254
AreaSentiment(area, sentiment, social, userReports, trendDirection, lastUpdated) ==
    [area |-> area.name,
     sentiment |-> sentiment,
     reportCount |-> social + userReports,
     sources |-> [social |-> social, userReports |-> userReports, civic |-> 0],
     lastUpdated |-> lastUpdated,
     trendDirection |-> trendDirection]

\* batch.set of every result and batch.commit: of two results of one
\* document the later one stays
\* commit that leaves the documents that exist as they are
commit_keepExisting(store, results) ==
    [d \in DOMAIN store |->
        LET at == {k \in DOMAIN results : docId(results[k].area) = d}
        IN  IF at = {} \/ store[d].exists THEN store[d] ELSE Doc(results[Max(at)])]

commit(store, results) ==
    [d \in DOMAIN store |->
        LET at == {k \in DOMAIN results : docId(results[k].area) = d}
        IN  IF at = {} THEN store[d] ELSE Doc(results[Max(at)])]

\* how many social posts and user reports the two queries of an area find
DataPool == {<<0, 0>>, <<8, 2>>}

\* what the collaborator answers during a sweep
SweepAnswers ==
    {Answer(Object(<<Member("score", Num(-4, 5)),
                     Member("classification", Str("negative")),
                     Member("confidence", Num(9, 10))>>)),
     Answer(Object(<<Member("score", Num(3, 2)),
                     Member("classification", Str("negative")),
                     Member("confidence", Num(9, 10))>>)),
     Answer(Object(<<Member("score", Str("very negative")),
                     Member("classification", Str("negative")),
                     Member("confidence", Num(9, 10))>>)),
     Answer(<<Prose>>),
     NoAnswer}

InitSweep ==
    /\ posts = <<>>
    /\ pc = "fetch"
    /\ ret = NoReturn
    /\ idx = 1
    /\ processed = {}
    /\ groups = <<>>
    /\ TriggerIdle
    /\ OverlapIdle
    /\ ImageIdle
    /\ run = 1
    /\ current = <<>>
    /\ sentimentResults = <<>>
    /\ heatmap = [d \in DocIds |-> NoDoc]
    /\ alerts = <<>>

\* lines 220-223: one of the two queries of the area throws, the catch of
\* line 280 ends the run
FetchFails ==
    /\ pc = "fetch"
    /\ idx <= Len(CITY_AREAS)
    /\ \E query \in {"fetchSocialPostsForArea", "fetchUserReportsForArea"} :
          ret' = [op |-> query] @@ Throw("query rejected")
    /\ pc' = "caught"
    /\ UNCHANGED <<imageVars, invocations, posts, idx, processed, groups, triggerVars, sweepVars>>

\* lines 226-228: no data, the area is skipped
SkipArea ==
    /\ pc = "fetch"
    /\ idx <= Len(CITY_AREAS)
    /\ \E data \in DataPool : data[1] = 0 /\ data[2] = 0
    /\ idx' = idx + 1
    /\ UNCHANGED <<imageVars, invocations, posts, pc, ret, processed, groups, triggerVars, sweepVars>>

\* lines 220-235: the area has data and its sentiment is analysed
AnalyzeArea ==
    /\ pc = "fetch"
    /\ idx <= Len(CITY_AREAS)
    /\ \E data \in DataPool, answer \in SweepAnswers :
          /\ ~(data[1] = 0 /\ data[2] = 0)
          /\ response' = answer
          /\ current' = [sentiment |->
                             analyzeCombinedSentiment(data[1], data[2], answer),
                         social |-> data[1],
                         userReports |-> data[2]]
    /\ pc' = "trend"
    /\ UNCHANGED <<imageVars, invocations, posts, ret, idx, processed, groups, events, logs, run,
                   sentimentResults, heatmap, alerts>>

\* what lines 238-256 push
pushed(previousSentiment) ==
    Append(sentimentResults,
           AreaSentiment(CITY_AREAS[idx], current.sentiment, current.social,
                         current.userReports,
                         determineTrend(current.sentiment.score, previousSentiment),
                         run))

\* lines 238-256: the stored score is read and the result is pushed
ReadBaseline ==
    /\ pc = "trend"
    /\ sentimentResults' =
          pushed(getPreviousSentiment(Value(heatmap[docId(CITY_AREAS[idx].name)])))
    /\ current' = <<>>
    /\ idx' = idx + 1
    /\ pc' = "fetch"
    /\ UNCHANGED <<imageVars, invocations, posts, ret, processed, groups, triggerVars, run, heatmap, alerts>>

\* lines 238-256 and 405-407: the read of the stored score throws
ReadBaselineFails ==
    /\ pc = "trend"
    /\ sentimentResults' = pushed(getPreviousSentiment(Throw("read rejected")))
    /\ current' = <<>>
    /\ idx' = idx + 1
    /\ pc' = "fetch"
    /\ UNCHANGED <<imageVars, invocations, posts, ret, processed, groups, triggerVars, run, heatmap, alerts>>

\* lines 260-273: the loop over the areas is over, the batch is committed
CommitBatch ==
    /\ pc = "fetch"
    /\ idx > Len(CITY_AREAS)
    /\ heatmap' = commit(heatmap, sentimentResults)
    /\ idx' = 1
    /\ pc' = "negative"
    /\ UNCHANGED <<imageVars, invocations, posts, ret, processed, groups, triggerVars, run, current,
                   sentimentResults, alerts>>

\* line 273: the commit is rejected, the catch of line 280 ends the run
CommitFails ==
    /\ pc = "fetch"
    /\ idx > Len(CITY_AREAS)
    /\ ret' = [op |-> "commit"] @@ Throw("commit rejected")
    /\ pc' = "caught"
    /\ UNCHANGED <<imageVars, invocations, posts, idx, processed, groups, triggerVars, sweepVars>>

\* lines 419-429: the first rule on the result at idx
EmitNegative ==
    /\ pc = "negative"
    /\ idx <= Len(sentimentResults)
    /\ LET result == sentimentResults[idx]
       IN  alerts' = IF isNegativeSentiment(result)
                     THEN add(alerts, Alert(result, "negative_sentiment", "high", run))
                     ELSE alerts
    /\ pc' = "decline"
    /\ UNCHANGED <<imageVars, invocations, posts, ret, idx, processed, groups, triggerVars, run, current,
                   sentimentResults, heatmap>>

\* line 420: the write of the alert is rejected, checkForSentimentAlerts throws
EmitNegativeFails ==
    /\ pc = "negative"
    /\ idx <= Len(sentimentResults)
    /\ isNegativeSentiment(sentimentResults[idx])
    /\ ret' = [op |-> "checkForSentimentAlerts"] @@ Throw("add rejected")
    /\ pc' = "caught"
    /\ UNCHANGED <<imageVars, invocations, posts, idx, processed, groups, triggerVars, sweepVars>>

\* lines 432-442: the second rule on the result at idx
EmitDecline ==
    /\ pc = "decline"
    /\ LET result == sentimentResults[idx]
       IN  alerts' = IF isSentimentDecline(result)
                     THEN add(alerts, Alert(result, "sentiment_decline", "medium", run))
                     ELSE alerts
    /\ idx' = idx + 1
    /\ pc' = "negative"
    /\ UNCHANGED <<imageVars, invocations, posts, ret, processed, groups, triggerVars, run, current,
                   sentimentResults, heatmap>>

\* line 433: the write of the alert is rejected, checkForSentimentAlerts throws
EmitDeclineFails ==
    /\ pc = "decline"
    /\ isSentimentDecline(sentimentResults[idx])
    /\ ret' = [op |-> "checkForSentimentAlerts"] @@ Throw("add rejected")
    /\ pc' = "caught"
    /\ UNCHANGED <<imageVars, invocations, posts, idx, processed, groups, triggerVars, sweepVars>>

\* line 444: every result has been looked at, checkForSentimentAlerts returns
AlertsChecked ==
    /\ pc = "negative"
    /\ idx > Len(sentimentResults)
    /\ ret' = Return("checkForSentimentAlerts", Undefined)
    /\ pc' = "checked"
    /\ UNCHANGED <<imageVars, invocations, posts, idx, processed, groups, triggerVars, sweepVars>>

\* the schedule of line 207: the run has ended, returning after line 278 or
\* after the catch of line 280, and the next one starts
NextRun ==
    /\ pc \in {"checked", "caught"}
    /\ run < MaxRuns
    /\ run' = run + 1
    /\ idx' = 1
    /\ sentimentResults' = <<>>
    /\ ret' = NoReturn
    /\ pc' = "fetch"
    /\ UNCHANGED <<imageVars, invocations, posts, processed, groups, triggerVars, current, heatmap, alerts>>

NextSweep ==
    \/ FetchFails
    \/ SkipArea
    \/ AnalyzeArea
    \/ ReadBaseline
    \/ ReadBaselineFails
    \/ CommitBatch
    \/ CommitFails
    \/ EmitNegative
    \/ EmitNegativeFails
    \/ EmitDecline
    \/ EmitDeclineFails
    \/ AlertsChecked
    \/ NextRun

SpecSweep == InitSweep /\ [][NextSweep]_vars

(***************************************************************************)
(* SpecAlerts: one call of checkForSentimentAlerts on a batch of results   *)
(***************************************************************************)
AlertScores ==
    {Frac(-4, 5), Frac(-7, 10), Frac(-3, 5), Frac(-1, 2), Frac(0, 1), NaN}

AlertConfidences == {Frac(4, 5), Frac(9, 10)}

\* the results an area may have in a batch
AlertResults(area) ==
    {AreaSentiment(area,
                   [score |-> s, classification |-> "neutral", confidence |-> c,
                    keywords |-> <<>>, summary |-> <<>>],
                   8, 2, t, 1) :
        s \in AlertScores, c \in AlertConfidences, t \in {"up", "down", "stable"}}

\* a batch holds a result of every area, of the first only, or of none
AlertBatches ==
    {<<>>}
    \cup {<<r>> : r \in AlertResults(CITY_AREAS[1])}
    \cup {<<r, s>> : r \in AlertResults(CITY_AREAS[1]),
                     s \in AlertResults(CITY_AREAS[2])}

InitAlerts ==
    /\ posts = <<>>
    /\ pc = "negative"
    /\ ret = NoReturn
    /\ idx = 1
    /\ processed = {}
    /\ groups = <<>>
    /\ TriggerIdle
    /\ OverlapIdle
    /\ ImageIdle
    /\ run = 1
    /\ current = <<>>
    /\ sentimentResults \in AlertBatches
    /\ heatmap = [d \in DocIds |-> NoDoc]
    /\ alerts = <<>>

NextAlerts ==
    \/ EmitNegative
    \/ EmitNegativeFails
    \/ EmitDecline
    \/ EmitDeclineFails
    \/ AlertsChecked

SpecAlerts == InitAlerts /\ [][NextAlerts]_vars

(***************************************************************************)
(* functions/src/index.ts: ContentModerator and the analyzeUploadedImage   *)
(* trigger                                                                 *)
(***************************************************************************)
inappropriateKeywords == <<"violence", "weapon", "blood", "explicit", "inappropriate">>

\* the characters of a keyword
Characters(keyword) ==
    CASE keyword = "violence" -> <<"v", "i", "o", "l", "e", "n", "c", "e">>
      [] keyword = "weapon" -> <<"w", "e", "a", "p", "o", "n">>
      [] keyword = "blood" -> <<"b", "l", "o", "o", "d">>
      [] keyword = "explicit" -> <<"e", "x", "p", "l", "i", "c", "i", "t">>
      [] keyword = "inappropriate" ->
            <<"i", "n", "a", "p", "p", "r", "o", "p", "r", "i", "a", "t", "e">>

\* `inappropriate_content_${keyword}`
InappropriateFlag(keyword) == [prefix |-> "inappropriate_content", keyword |-> keyword]

HighPriorityEmergency == [prefix |-> "high_priority_emergency", keyword |-> ""]

\* flag.startsWith('inappropriate_content')
flagStartsWithInappropriate(flag) == flag.prefix = "inappropriate_content"

\* text.includes(part)
includes(text, part) ==
    \E k \in 0..(Len(text) - Len(part)) : SubSeq(text, k + 1, k + Len(part)) = part

\* text.startsWith(prefix)
startsWith(text, prefix) ==
    Len(text) >= Len(prefix) /\ SubSeq(text, 1, Len(prefix)) = prefix

\* the flags of the keywords found, in the order of the keywords
RECURSIVE keywordFlags(_, _)
keywordFlags(description, keywords) ==
    IF keywords = <<>> THEN <<>>
    ELSE (IF includes(description, Characters(Head(keywords)))
          THEN <<InappropriateFlag(Head(keywords))>>
          ELSE <<>>)
         \o keywordFlags(description, Tail(keywords))

checkImageSafety(analysisResult_) ==
    LET description == toLowerCase(analysisResult_.description)
        flags ==
            keywordFlags(description, inappropriateKeywords)
            \o (IF /\ analysisResult_.severityScore >= 4
                   /\ analysisResult_.safetyLevel = "emergency"
                THEN <<HighPriorityEmergency>>
                ELSE <<>>)
        action ==
            IF \E k \in DOMAIN flags : flagStartsWithInappropriate(flags[k])
            THEN "reject"
            ELSE IF Len(flags) > 0 \/ Less(analysisResult_.confidence, Frac(1, 2))
                 THEN "review"
                 ELSE "approve"
    IN  [isAppropriate |-> action # "reject", flags |-> flags, action |-> action]

mapCategoryToEventType(category) ==
    CASE category = "accident" -> "traffic"
      [] category = "waterlogging" -> "weather"
      [] category = "celebration" -> "celebration"
      [] category = "construction" -> "construction"
      [] category = "fire" -> "emergency"
      [] category = "protest" -> "emergency"
      [] category = "vandalism" -> "emergency"
      [] category = "infrastructure" -> "construction"
      [] category = "weather" -> "weather"
      [] category = "other" -> "emergency"
      [] OTHER -> "emergency"

calculateSentimentFromSeverity(severity) == Frac(3 - severity, 2)

mapSeverityScoreToLevel(score) ==
    IF score >= 5 THEN "critical"
    ELSE IF score >= 4 THEN "high"
    ELSE IF score >= 3 THEN "medium"
    ELSE "low"

\* `this` inside the arrow function handed to onFinalize (line 668) is the
\* `this` of the module: its exports object (undefined when the file is
\* loaded as an ES module).  The three helpers of lines 852-879 are
\* functions declared in the module, not members of that object.
this == {"synthesizeSocialPosts", "testSynthesis", "analyzeUploadedImage",
         "analyzeImageManually"}

\* the argument of eventRef.set (lines 711-754): evaluating it calls
\* this.mapCategoryToEventType, this.calculateSentimentFromSeverity and
\* this.mapSeverityScoreToLevel
eventDocument(analysis, moderation) ==
    IF {"mapCategoryToEventType", "calculateSentimentFromSeverity",
        "mapSeverityScoreToLevel"} \subseteq this
    THEN Value([eventType |-> mapCategoryToEventType(analysis.category),
                source |-> "user",
                sentimentScore |->
                    calculateSentimentFromSeverity(analysis.severityScore),
                severity |-> mapSeverityScoreToLevel(analysis.severityScore),
                status |-> IF moderation.action = "review" THEN "monitoring"
                                                           ELSE "active",
                reportCount |-> 1,
                confidence |-> analysis.confidence])
    ELSE Throw("TypeError: this.mapCategoryToEventType is not a function")

(***************************************************************************)
(* SpecImage: one run of the analyzeUploadedImage trigger                  *)
(***************************************************************************)
UserReportsFolder ==
    <<"u", "s", "e", "r", "-", "r", "e", "p", "o", "r", "t", "s", "/">>

ImagePrefix ==
    <<"i", "m", "a", "g", "e", "/">>

ObjectNames ==
    {Undefined,
     Str(
        <<"u", "s", "e", "r", "-", "r", "e", "p", "o", "r", "t", "s", "/",
          "a", ".", "j", "p", "g">>),
     Str(
        <<"a", "v", "a", "t", "a", "r", "s", "/", "a", ".", "j", "p", "g">>)}

ContentTypes ==
    {Undefined,
     Str(
        <<"i", "m", "a", "g", "e", "/", "j", "p", "e", "g">>),
     Str(
        <<"t", "e", "x", "t", "/", "p", "l", "a", "i", "n">>)}

\* object.metadata?.location: absent, a JSON text, or a text that
\* JSON.parse rejects
Objects ==
    [name : ObjectNames, contentType : ContentTypes,
     location : {"absent", "json", "malformed"}]

ReportedDescriptions ==
    {Undefined, Num(1, 1),
     Str(
        <<"C", "a", "r", " ", "c", "r", "a", "s", "h">>),
     Str(
        <<" ", "A", " ", "W", "e", "a", "p", "o", "n", " ", "o", "n", " ",
          "t", "h", "e", " ", "r", "o", "a", "d", " ">>),
     Str(
        <<"B", "l", "o", "o", "d", "h", "o", "u", "n", "d", " ", "i", "n",
          " ", "a", " ", "p", "a", "r", "k">>)}

ImageResponses ==
    {Object(Members("description", d) \o Members("severityScore", v)
            \o Members("safetyLevel", l) \o Members("confidence", c)
            \o <<Member("category", Str("fire"))>>) :
        d \in ReportedDescriptions,
        v \in {Undefined, Num(3, 1), Num(4, 1), Num(5, 1)},
        l \in {Undefined, Str("danger"), Str("emergency")},
        c \in {Undefined, Str("high"), Num(3, 10), Num(1, 2), Num(9, 10)}}
    \cup {<<>>, <<Prose>>, <<Open, Prose, Close>>}

InitImage ==
    /\ posts = <<>>
    /\ pc = "start"
    /\ ret = NoReturn
    /\ idx = 1
    /\ processed = {}
    /\ groups = <<>>
    /\ TriggerIdle
    /\ OverlapIdle
    /\ SweepIdle
    /\ object \in Objects
    /\ analysisResult = None
    /\ moderationResult = None
    /\ notifications = <<>>

\* lines 673-681 hold for the object
IsImageReport(o) ==
    /\ TruthyText(o.name)
    /\ startsWith(o.name.str, UserReportsFolder)
    /\ TruthyText(o.contentType)
    /\ startsWith(o.contentType.str, ImagePrefix)

imageIdle == <<posts, idx, processed, groups, sweepVars, invocations>>

\* lines 673-681: not under user-reports/, or not an image
SkipObject ==
    /\ pc = "start"
    /\ ~IsImageReport(object)
    /\ pc' = "skipped"
    /\ UNCHANGED <<imageIdle, ret, triggerVars, imageVars>>

\* lines 687-697: the download and the metadata
Download ==
    /\ pc = "start"
    /\ IsImageReport(object)
    /\ IF object.location = "malformed"
       THEN /\ ret' = [op |-> "JSON.parse", threw |-> TRUE]
            /\ pc' = "catch"
       ELSE /\ ret' = NoReturn
            /\ pc' = "analyze"
    /\ UNCHANGED <<imageIdle, triggerVars, imageVars>>

\* line 688: file.download rejects
DownloadFails ==
    /\ pc = "start"
    /\ IsImageReport(object)
    /\ ret' = [op |-> "download", threw |-> TRUE]
    /\ pc' = "catch"
    /\ UNCHANGED <<imageIdle, triggerVars, imageVars>>

\* lines 700-701 and 471-486: the collaborator answers; every answer is
\* turned into an analysis result
AnalyzeImage ==
    /\ pc = "analyze"
    /\ \E text \in ImageResponses :
          /\ response' = Answer(text)
          /\ analysisResult' = parseAnalysisResponse(text)
    /\ ret' = Return("analyzeImage", "analysisResult")
    /\ pc' = "moderate"
    /\ UNCHANGED <<imageIdle, events, logs, object, moderationResult,
                   notifications>>

\* lines 487-490: the collaborator call rejects, analyzeImage throws
AnalyzeImageFails ==
    /\ pc = "analyze"
    /\ response' = NoAnswer
    /\ ret' = [op |-> "analyzeImage", threw |-> TRUE]
    /\ pc' = "catch"
    /\ UNCHANGED <<imageIdle, events, logs, imageVars>>

\* lines 704-705
CheckImageSafety ==
    /\ pc = "moderate"
    /\ moderationResult' = checkImageSafety(analysisResult)
    /\ pc' = "event"
    /\ UNCHANGED <<imageIdle, ret, triggerVars, object, analysisResult,
                   notifications>>

\* lines 708-757: the event of an appropriate image
CreateEvent ==
    /\ pc = "event"
    /\ moderationResult.isAppropriate
    /\ LET document == eventDocument(analysisResult, moderationResult)
       IN  IF document.threw
           THEN /\ ret' = [op |-> "eventRef.set", threw |-> TRUE]
                /\ pc' = "catch"
                /\ UNCHANGED events
           ELSE /\ events' = Append(events, document.val)
                /\ ret' = NoReturn
                /\ pc' = "log"
    /\ UNCHANGED <<imageIdle, response, logs, imageVars>>

\* line 708: a rejected image gets no event
NoEvent ==
    /\ pc = "event"
    /\ ~moderationResult.isAppropriate
    /\ pc' = "log"
    /\ UNCHANGED <<imageIdle, ret, triggerVars, imageVars>>

\* lines 760-778
LogAnalysis ==
    /\ pc = "log"
    /\ logs' = Append(logs, [processingType |-> "image_analysis",
                             eventId |-> IF moderationResult.isAppropriate
                                         THEN "created" ELSE "rejected",
                             confidence |-> analysisResult.confidence])
    /\ pc' = "notify"
    /\ UNCHANGED <<imageIdle, ret, response, events, imageVars>>

\* line 760: the write of the log record rejects
LogAnalysisFails ==
    /\ pc = "log"
    /\ ret' = [op |-> "aiProcessingLogs.add", threw |-> TRUE]
    /\ pc' = "catch"
    /\ UNCHANGED <<imageIdle, triggerVars, imageVars>>

\* lines 781-792
Notify ==
    /\ pc = "notify"
    /\ IF analysisResult.severityScore >= 4 /\ moderationResult.isAppropriate
       THEN notifications' =
                Append(notifications, [type |-> "high_priority_report",
                                       eventId |-> "pending"])
       ELSE UNCHANGED notifications
    /\ pc' = "done"
    /\ UNCHANGED <<imageIdle, ret, triggerVars, object, analysisResult,
                   moderationResult>>

\* lines 794-808: the catch block writes an error record
LogImageError ==
    /\ pc = "catch"
    /\ logs' = Append(logs, [processingType |-> "image_analysis_error",
                             eventId |-> "error",
                             confidence |-> Frac(0, 1)])
    /\ pc' = "done"
    /\ UNCHANGED <<imageIdle, ret, response, events, imageVars>>

\* line 798: the write of the error record rejects, the trigger fails
LogImageErrorFails ==
    /\ pc = "catch"
    /\ pc' = "failed"
    /\ UNCHANGED <<imageIdle, ret, triggerVars, imageVars>>

NextImage ==
    \/ SkipObject
    \/ Download
    \/ DownloadFails
    \/ AnalyzeImage
    \/ AnalyzeImageFails
    \/ CheckImageSafety
    \/ CreateEvent
    \/ NoEvent
    \/ LogAnalysis
    \/ LogAnalysisFails
    \/ Notify
    \/ LogImageError
    \/ LogImageErrorFails

SpecImage == InitImage /\ [][NextImage]_vars

(***************************************************************************)
(* SpecManual: one call of analyzeSentimentManually                        *)
(* (functions/src/sentimentHeatmap.ts lines 286-324)                       *)
(***************************************************************************)
\* AreaManager.getAreaBounds: the area of that very name, or null
getAreaBounds(areaName) ==
    IF \E k \in DOMAIN CITY_AREAS : CITY_AREAS[k].name = areaName
    THEN CITY_AREAS[CHOOSE k \in DOMAIN CITY_AREAS : CITY_AREAS[k].name = areaName]
    ELSE Null

\* new functions.https.HttpsError(code, message)
HttpsError(code, message) == [threw |-> TRUE, code |-> code, message |-> message]

\* the catch of lines 321-323: whatever was thrown in the try block is
\* thrown again as an HttpsError of code internal
rethrowInternal(error) == HttpsError("internal", error.message)

\* the names a caller may give: two configured ones, one in other letter
\* case, one of no area, and the empty one
AreaNames ==
    {CITY_AREAS[k].name : k \in DOMAIN CITY_AREAS}
    \cup {toLowerCase(CITY_AREAS[1].name),
          <<"A", "t", "l", "a", "n", "t", "i", "s">>,
          CITY_AREAS[2].name \o <<" ">>,
          <<>>}

\* what the two queries may find: numbers of posts and of reports
CallData == {<<0, 0>>, <<3, 0>>, <<8, 2>>}

InitManual ==
    /\ posts = <<>>
    /\ pc = "call"
    /\ ret = NoReturn
    /\ idx = 1
    /\ processed = {}
    /\ groups = <<>>
    /\ TriggerIdle
    /\ OverlapIdle
    /\ ImageIdle
    /\ run = 0
    /\ current \in [auth : BOOLEAN, areaName : AreaNames, social : {None},
                    userReports : {None}]
    /\ sentimentResults = <<>>
    /\ heatmap = <<>>
    /\ alerts = <<>>

manualIdle ==
    <<imageVars, invocations, posts, idx, processed, groups, events, logs, run,
      sentimentResults, heatmap, alerts>>

\* lines 287-289
Unauthenticated ==
    /\ pc = "call"
    /\ ~current.auth
    /\ ret' = [op |-> "analyzeSentimentManually"]
              @@ HttpsError("unauthenticated", "Must be authenticated")
    /\ pc' = "thrown"
    /\ UNCHANGED <<manualIdle, response, current>>

\* lines 297-300 and 321-323: no area of that name
InvalidArea ==
    /\ pc = "call"
    /\ current.auth
    /\ getAreaBounds(current.areaName) = Null
    /\ ret' = [op |-> "analyzeSentimentManually"]
              @@ rethrowInternal(HttpsError("invalid-argument", "Invalid area name"))
    /\ pc' = "thrown"
    /\ UNCHANGED <<manualIdle, response, current>>

\* line 302
FetchSocialPosts ==
    /\ pc = "call"
    /\ current.auth
    /\ getAreaBounds(current.areaName) # Null
    /\ \E data \in CallData : current' = [current EXCEPT !.social = data[1]]
    /\ pc' = "reports"
    /\ UNCHANGED <<manualIdle, response, ret>>

\* line 303
FetchUserReports ==
    /\ pc = "reports"
    /\ \E data \in CallData : current' = [current EXCEPT !.userReports = data[2]]
    /\ pc' = "analyze"
    /\ UNCHANGED <<manualIdle, response, ret>>

\* lines 302-303 and 321-323: a query is rejected
FetchForCallFails ==
    /\ pc \in {"call", "reports"}
    /\ current.auth
    /\ getAreaBounds(current.areaName) # Null
    /\ ret' = [op |-> "analyzeSentimentManually"]
              @@ rethrowInternal([message |-> "query rejected"])
    /\ pc' = "thrown"
    /\ UNCHANGED <<manualIdle, response, current>>

\* lines 305-319
AnalyzeForCall ==
    /\ pc = "analyze"
    /\ \E answer \in SweepAnswers :
          /\ response' = answer
          /\ ret' = Return("analyzeSentimentManually",
                           [success |-> TRUE,
                            area |-> current.areaName,
                            sentiment |->
                                analyzeCombinedSentiment(current.social,
                                                         current.userReports,
                                                         answer),
                            dataPoints |-> [social |-> current.social,
                                            reports |-> current.userReports]])
    /\ pc' = "returned"
    /\ UNCHANGED <<manualIdle, current>>

NextManual ==
    \/ Unauthenticated
    \/ InvalidArea
    \/ FetchSocialPosts
    \/ FetchUserReports
    \/ FetchForCallFails
    \/ AnalyzeForCall

SpecManual == InitManual /\ [][NextManual]_vars

(***************************************************************************)
(* SpecOverlap: two runs of updateSentimentHeatmap under way at one time   *)
(* (the schedule of line 207 and the function take no lock: a run that is  *)
(* started while another one is between two awaits works on the same       *)
(* collections).  Each run has its own control position and results; the   *)
(* collections sentimentHeatmap and sentimentAlerts are shared.            *)
(***************************************************************************)
Invocations == {1, 2}

\* a result an earlier run may have left in the collection
EarlierResult(area) ==
    AreaSentiment(area,
                  analyzeCombinedSentiment(8, 2,
                      Answer(Object(<<Member("score", Num(-4, 5)),
                                      Member("classification", Str("negative")),
                                      Member("confidence", Num(9, 10))>>))),
                  8, 2, "down", 0)

\* what the collaborator answers: a strongly negative score, or nothing
OverlapAnswers ==
    {Answer(Object(<<Member("score", Num(-4, 5)),
                     Member("classification", Str("negative")),
                     Member("confidence", Num(9, 10))>>)),
     NoAnswer}

\* a run that has just been started
Started ==
    [pc |-> "fetch", idx |-> 1, current |-> <<>>, sentimentResults |-> <<>>,
     ret |-> NoReturn]

InitOverlap ==
    /\ posts = <<>>
    /\ pc = "overlap"
    /\ ret = NoReturn
    /\ idx = 1
    /\ processed = {}
    /\ groups = <<>>
    /\ response = NoResponse
    /\ events = <<>>
    /\ logs = <<>>
    /\ ImageIdle
    /\ run = 0
    /\ current = <<>>
    /\ sentimentResults = <<>>
    /\ heatmap \in {store \in [DocIds -> {NoDoc} \cup {Doc(EarlierResult(CITY_AREAS[k])) :
                                                      k \in DOMAIN CITY_AREAS}] :
                       \A k \in DOMAIN CITY_AREAS :
                           LET d == docId(CITY_AREAS[k].name)
                           IN  store[d].exists => store[d].data.area = CITY_AREAS[k].name}
    /\ alerts = <<>>
    /\ invocations = [i \in Invocations |-> Started]

overlapIdle ==
    <<posts, pc, ret, idx, processed, groups, triggerVars, imageVars, run, current,
      sentimentResults>>

\* lines 220-223: a query of the area throws, the catch of line 280 ends
\* the run
FetchFailsIn(i) ==
    /\ invocations[i].pc = "fetch"
    /\ invocations[i].idx <= Len(CITY_AREAS)
    /\ \E query \in {"fetchSocialPostsForArea", "fetchUserReportsForArea"} :
          invocations' =
              [invocations EXCEPT ![i].ret = [op |-> query] @@ Throw("query rejected"),
                                  ![i].pc = "caught"]
    /\ UNCHANGED <<overlapIdle, heatmap, alerts>>

\* lines 226-228
SkipAreaIn(i) ==
    /\ invocations[i].pc = "fetch"
    /\ invocations[i].idx <= Len(CITY_AREAS)
    /\ \E data \in DataPool : data[1] = 0 /\ data[2] = 0
    /\ invocations' = [invocations EXCEPT ![i].idx = @ + 1]
    /\ UNCHANGED <<overlapIdle, heatmap, alerts>>

\* lines 220-235
AnalyzeAreaIn(i) ==
    /\ invocations[i].pc = "fetch"
    /\ invocations[i].idx <= Len(CITY_AREAS)
    /\ \E data \in DataPool, answer \in OverlapAnswers :
          /\ ~(data[1] = 0 /\ data[2] = 0)
          /\ invocations' =
                [invocations EXCEPT
                    ![i].current =
                        [sentiment |->
                             analyzeCombinedSentiment(data[1], data[2], answer),
                         social |-> data[1],
                         userReports |-> data[2]],
                    ![i].pc = "trend"]
    /\ UNCHANGED <<overlapIdle, heatmap, alerts>>

\* what lines 238-256 push in run i
pushedIn(i, previousSentiment) ==
    LET inv == invocations[i]
    IN  Append(inv.sentimentResults,
               AreaSentiment(CITY_AREAS[inv.idx], inv.current.sentiment,
                             inv.current.social, inv.current.userReports,
                             determineTrend(inv.current.sentiment.score,
                                            previousSentiment),
                             i))

\* lines 238-256: the stored score is read and the result is pushed
ReadBaselineIn(i) ==
    /\ invocations[i].pc = "trend"
    /\ invocations' =
          [invocations EXCEPT
              ![i].sentimentResults =
                  pushedIn(i, getPreviousSentiment(
                                  Value(heatmap[docId(CITY_AREAS[invocations[i].idx].name)]))),
              ![i].current = <<>>,
              ![i].idx = @ + 1,
              ![i].pc = "fetch"]
    /\ UNCHANGED <<overlapIdle, heatmap, alerts>>

\* lines 238-256 and 405-407: the read of the stored score throws
ReadBaselineFailsIn(i) ==
    /\ invocations[i].pc = "trend"
    /\ invocations' =
          [invocations EXCEPT
              ![i].sentimentResults =
                  pushedIn(i, getPreviousSentiment(Throw("read rejected"))),
              ![i].current = <<>>,
              ![i].idx = @ + 1,
              ![i].pc = "fetch"]
    /\ UNCHANGED <<overlapIdle, heatmap, alerts>>

\* lines 260-273
CommitBatchIn(i) ==
    /\ invocations[i].pc = "fetch"
    /\ invocations[i].idx > Len(CITY_AREAS)
    /\ heatmap' = commit(heatmap, invocations[i].sentimentResults)
    /\ invocations' = [invocations EXCEPT ![i].idx = 1, ![i].pc = "negative"]
    /\ UNCHANGED <<overlapIdle, alerts>>

\* CommitFailsIn going on to the alerts although the commit was rejected
CommitFailsIn_alertsAnyway(i) ==
    /\ invocations[i].pc = "fetch"
    /\ invocations[i].idx > Len(CITY_AREAS)
    /\ invocations' =
          [invocations EXCEPT ![i].ret = [op |-> "commit"] @@ Throw("commit rejected"),
                              ![i].idx = 1,
                              ![i].pc = "negative"]
    /\ UNCHANGED <<overlapIdle, heatmap, alerts>>

\* line 273: the commit is rejected
CommitFailsIn(i) ==
    /\ invocations[i].pc = "fetch"
    /\ invocations[i].idx > Len(CITY_AREAS)
    /\ invocations' =
          [invocations EXCEPT ![i].ret = [op |-> "commit"] @@ Throw("commit rejected"),
                              ![i].pc = "caught"]
    /\ UNCHANGED <<overlapIdle, heatmap, alerts>>

\* lines 419-429
EmitNegativeIn(i) ==
    /\ invocations[i].pc = "negative"
    /\ invocations[i].idx <= Len(invocations[i].sentimentResults)
    /\ LET result == invocations[i].sentimentResults[invocations[i].idx]
       IN  alerts' = IF isNegativeSentiment(result)
                     THEN add(alerts, Alert(result, "negative_sentiment", "high", i))
                     ELSE alerts
    /\ invocations' = [invocations EXCEPT ![i].pc = "decline"]
    /\ UNCHANGED <<overlapIdle, heatmap>>

\* line 420: the write of the alert is rejected
EmitNegativeFailsIn(i) ==
    /\ invocations[i].pc = "negative"
    /\ invocations[i].idx <= Len(invocations[i].sentimentResults)
    /\ isNegativeSentiment(invocations[i].sentimentResults[invocations[i].idx])
    /\ invocations' =
          [invocations EXCEPT
              ![i].ret = [op |-> "checkForSentimentAlerts"] @@ Throw("add rejected"),
              ![i].pc = "caught"]
    /\ UNCHANGED <<overlapIdle, heatmap, alerts>>

\* lines 432-442
EmitDeclineIn(i) ==
    /\ invocations[i].pc = "decline"
    /\ LET result == invocations[i].sentimentResults[invocations[i].idx]
       IN  alerts' = IF isSentimentDecline(result)
                     THEN add(alerts, Alert(result, "sentiment_decline", "medium", i))
                     ELSE alerts
    /\ invocations' = [invocations EXCEPT ![i].idx = @ + 1, ![i].pc = "negative"]
    /\ UNCHANGED <<overlapIdle, heatmap>>

\* line 433: the write of the alert is rejected
EmitDeclineFailsIn(i) ==
    /\ invocations[i].pc = "decline"
    /\ isSentimentDecline(invocations[i].sentimentResults[invocations[i].idx])
    /\ invocations' =
          [invocations EXCEPT
              ![i].ret = [op |-> "checkForSentimentAlerts"] @@ Throw("add rejected"),
              ![i].pc = "caught"]
    /\ UNCHANGED <<overlapIdle, heatmap, alerts>>

\* line 444
AlertsCheckedIn(i) ==
    /\ invocations[i].pc = "negative"
    /\ invocations[i].idx > Len(invocations[i].sentimentResults)
    /\ invocations' =
          [invocations EXCEPT ![i].ret = Return("checkForSentimentAlerts", Undefined),
                              ![i].pc = "checked"]
    /\ UNCHANGED <<overlapIdle, heatmap, alerts>>

NextOverlap ==
    \E i \in Invocations :
        \/ FetchFailsIn(i)
        \/ SkipAreaIn(i)
        \/ AnalyzeAreaIn(i)
        \/ ReadBaselineIn(i)
        \/ ReadBaselineFailsIn(i)
        \/ CommitBatchIn(i)
        \/ CommitFailsIn(i)
        \/ EmitNegativeIn(i)
        \/ EmitNegativeFailsIn(i)
        \/ EmitDeclineIn(i)
        \/ EmitDeclineFailsIn(i)
        \/ AlertsCheckedIn(i)

SpecOverlap == InitOverlap /\ [][NextOverlap]_vars

(***************************************************************************)
(* Properties of detectDuplicates (SpecDup)                                *)
(***************************************************************************)
PostById(all, id) == all[CHOOSE k \in DOMAIN all : all[k].id = id]

Returned(op) == pc = "returned" /\ ret.op = op

\* Every group has at least 2 members, no id occurs twice (in one group or in
\* two), and every id is the id of a post of `all`.
GroupsWellFormed(gs, all) ==
    /\ \A g \in DOMAIN gs : Len(gs[g]) >= 2
    /\ \A g \in DOMAIN gs, h \in DOMAIN gs :
         \A a \in DOMAIN gs[g], b \in DOMAIN gs[h] :
            gs[g][a] = gs[h][b] => g = h /\ a = b
    /\ \A g \in DOMAIN gs : \A a \in DOMAIN gs[g] :
         \E k \in DOMAIN all : all[k].id = gs[g][a]
    /\ (all = <<>> => gs = <<>>)

\* C1: for posts with unique ids, the groups detectDuplicates returns are
\* pairwise disjoint and free of repetitions, hold only ids of the input and
\* have at least 2 members each; an empty input gives no group.
C1_GroupsPartition ==
    Returned("detectDuplicates") => GroupsWellFormed(ret.val, posts)

\* C1 witness: three posts, one group of two returned, the third post left out.
C1_Witness ==
    /\ Returned("detectDuplicates")
    /\ Len(posts) = 3
    /\ Len(ret.val) = 1
    /\ Len(ret.val[1]) = 2

\* C2 as stated: any two members of a returned group are at most
\* 3,600,000 ms apart.
C2_AllPairsWithinHour ==
    Returned("detectDuplicates") =>
        \A g \in DOMAIN ret.val : \A a \in DOMAIN ret.val[g], b \in DOMAIN ret.val[g] :
            Abs(PostById(posts, ret.val[g][a]).timestamp
                - PostById(posts, ret.val[g][b]).timestamp) <= 3600000

\* C2 as amended: every member of a returned group is at most 3,600,000 ms
\* from the group's first member (its seed), so any two members are at most
\* 7,200,000 ms apart.
C2_WithinHourOfSeed ==
    Returned("detectDuplicates") =>
        \A g \in DOMAIN ret.val : \A a \in DOMAIN ret.val[g], b \in DOMAIN ret.val[g] :
            /\ Abs(PostById(posts, ret.val[g][a]).timestamp
                   - PostById(posts, ret.val[g][1]).timestamp) <= 3600000
            /\ Abs(PostById(posts, ret.val[g][a]).timestamp
                   - PostById(posts, ret.val[g][b]).timestamp) <= 7200000

\* C2 witness: a returned group with two members 7,200,000 ms apart.
C2_Witness ==
    /\ Returned("detectDuplicates")
    /\ \E g \in DOMAIN ret.val : \E a \in DOMAIN ret.val[g], b \in DOMAIN ret.val[g] :
          PostById(posts, ret.val[g][a]).timestamp
              - PostById(posts, ret.val[g][b]).timestamp = 7200000

\* C5 as stated: on the scenario A, B, C the result is the one group [A, B].
C5_ScenarioGroupsAB ==
    Returned("detectDuplicates") /\ posts = ScenarioPosts => ret.val = <<<<1, 2>>>>

\* C5 as amended: on the scenario A, B, C no group is returned, because the
\* texts of A and B share 2 of their 8 distinct words (similarity 1/4, under
\* 0.7); C is in no group.
C5_ScenarioNoGroup ==
    Returned("detectDuplicates") /\ posts = ScenarioPosts =>
        /\ ret.val = <<>>
        /\ FracEq(calculateTextSimilarity(TextA, TextB), Frac(1, 4))
        /\ ~areDuplicates(posts[1], posts[2])

\* C5 witness: detectDuplicates has returned on the scenario.
C5_Witness == Returned("detectDuplicates") /\ posts = ScenarioPosts

(***************************************************************************)
(* Properties of areDuplicates and calculateTextSimilarity (SpecPure)      *)
(***************************************************************************)
TimeDiff == Abs(posts[1].timestamp - posts[2].timestamp)

BothLocated == posts[1].location.present /\ posts[2].location.present

Distance == getDistance(posts[1].location.latitude, posts[2].location.latitude)

\* C3: areDuplicates(p, q) is true exactly when the timestamps are at most
\* 3,600,000 ms apart, a location is missing or the distance is at most
\* 500 m, and the text similarity is at least 0.7; textually identical posts
\* that meet the time and location conditions are duplicates.
C3_AreDuplicatesIff ==
    Returned("areDuplicates") =>
        LET inTime == TimeDiff <= 3600000
            near == ~BothLocated \/ Distance <= 500
            similar == FracLeq(Frac(7, 10),
                               calculateTextSimilarity(posts[1].text, posts[2].text))
        IN  /\ ret.val <=> (inTime /\ near /\ similar)
            /\ (posts[1].text = posts[2].text /\ inTime /\ near => ret.val)

\* C3 witness: duplicates at all three boundaries at once (3,600,000 ms,
\* 500 m, similarity 7/10).
C3_Witness ==
    /\ Returned("areDuplicates")
    /\ ret.val
    /\ TimeDiff = 3600000
    /\ BothLocated
    /\ Distance = 500
    /\ FracEq(calculateTextSimilarity(posts[1].text, posts[2].text), Frac(7, 10))

\* C4 as stated: two texts that both normalise to the empty string have
\* similarity 0.
C4_EmptyTextsSimilarityZero ==
    /\ Returned("calculateTextSimilarity")
    /\ normalizeText(posts[1].text) = <<>>
    /\ normalizeText(posts[2].text) = <<>>
    => FracEq(ret.val, Frac(0, 1))

(***************************************************************************)
(* Properties of inferCentralLocation (SpecPure)                           *)
(***************************************************************************)
LocatedLatitudes ==
    LET located == SelectSeq(posts, HasLocation)
    IN  [k \in 1..Len(located) |-> located[k].location.latitude]

\* C6: with exactly one located post the estimate is that post's position,
\* confidence 0.5 and radius 1000.
C6_SingleLocatedPost ==
    Returned("inferCentralLocation") /\ Len(LocatedLatitudes) = 1 =>
        /\ ~ret.threw
        /\ ret.val.latitude = LocatedLatitudes[1]
        /\ FracEq(ret.val.confidence, Frac(1, 2))
        /\ FracEq(ret.val.radius, Frac(1000, 1))

\* C6 witness: one located post among unlocated ones.
C6_Witness ==
    /\ Returned("inferCentralLocation")
    /\ Len(LocatedLatitudes) = 1
    /\ Len(posts) = 3
    /\ ~ret.threw

\* C7: with two or more located posts, confidence = max(0.1, 1 - max/5000)
\* and radius = max(1.5 * avg, 500) over the distances from the center of
\* the bounds; so confidence is in [0.1, 1] and radius >= 500, and co-located
\* posts give confidence 1 and radius 500.
C7_SpreadEstimate ==
    Returned("inferCentralLocation") /\ Len(LocatedLatitudes) >= 2 =>
        LET pts == LocatedLatitudes
            center == Min(Range(pts)) + (Max(Range(pts)) - Min(Range(pts))) \div 2
            dist == [k \in DOMAIN pts |-> Abs(center - pts[k])]
            maxD == Max(Range(dist))
            avg == Frac(Sum(dist), Len(dist))
        IN  /\ ~ret.threw
            /\ FracEq(ret.val.confidence,
                      FracMax(Frac(1, 10), Frac(5000 - maxD, 5000)))
            /\ FracEq(ret.val.radius,
                      FracMax(Frac(3 * avg.n, 2 * avg.d), Frac(500, 1)))
            /\ FracLeq(Frac(1, 10), ret.val.confidence)
            /\ FracLeq(ret.val.confidence, Frac(1, 1))
            /\ FracLeq(Frac(500, 1), ret.val.radius)
            /\ (Cardinality(Range(pts)) = 1 =>
                   /\ FracEq(ret.val.confidence, Frac(1, 1))
                   /\ FracEq(ret.val.radius, Frac(500, 1)))

\* C7 witness: three co-located posts, confidence 1 and radius 500.
C7_Witness ==
    /\ Returned("inferCentralLocation")
    /\ Len(LocatedLatitudes) = 3
    /\ Cardinality(Range(LocatedLatitudes)) = 1
    /\ ~ret.threw
    /\ FracEq(ret.val.confidence, Frac(1, 1))
    /\ FracEq(ret.val.radius, Frac(500, 1))

\* C8: without any located post, the empty list included,
\* inferCentralLocation throws and returns no estimate.
C8_NoLocationThrows ==
    Returned("inferCentralLocation") /\ Len(LocatedLatitudes) = 0 =>
        /\ ret.threw
        /\ ret.error = "No posts with location data"
        /\ "val" \notin DOMAIN ret

\* C8 witness: the call on the empty list has thrown.
C8_Witness ==
    /\ Returned("inferCentralLocation")
    /\ posts = <<>>
    /\ ret.threw

(***************************************************************************)
(* Properties of synthesizePosts (SpecSynth)                               *)
(***************************************************************************)
SynthesizeReturned == ret.op = "synthesizePosts" /\ ~ret.threw

\* the confidence member of the object the collaborator sent
ReportedConfidence ==
    get(JSONparse(match(response.text).text).val, "confidence")

LocationConfidence == inferCentralLocation(posts).val.confidence

InUnitInterval(x) == ~IsNaN(x) /\ FracLeq(Frac(0, 1), x) /\ FracLeq(x, Frac(1, 1))

\* C9 as stated: the event's confidence is min(c, location confidence) for
\* every reported confidence c in [0, 1], 0 included, and
\* min(0.7, location confidence) when none is reported.
C9_ConfidenceIsMin ==
    SynthesizeReturned =>
        LET c == ReportedConfidence
        IN  /\ c.type = "number" /\ InUnitInterval(c.num) =>
                 FracEq(ret.val.confidence, FracMin(c.num, LocationConfidence))
            /\ c.type = "undefined" =>
                 FracEq(ret.val.confidence, FracMin(Frac(7, 10), LocationConfidence))

\* C10 as stated: the event's confidence is in [0, 1] whatever number the
\* collaborator reports, and when it reports none.
C10_ConfidenceInUnitInterval ==
    SynthesizeReturned /\ ReportedConfidence.type \in {"number", "undefined"} =>
        InUnitInterval(ret.val.confidence)

\* the collaborator answered, and its text holds no parseable JSON object:
\* no brace pair at all, or text between the braces that JSON.parse rejects
NoParseableJson ==
    /\ response.status = "text"
    /\ LET jsonMatch == match(response.text)
       IN  ~jsonMatch.found \/ JSONparse(jsonMatch.text).threw

ErrorLog == [processingType |-> "social_synthesis_error", confidence |-> Frac(0, 1)]

\* C11: when the collaborator's response holds no parseable JSON object,
\* synthesizePosts throws, the trigger writes no record to the events
\* collection and no success log, and a trigger that completes has written
\* exactly one error log record.
C11_NoJsonNoEvent ==
    NoParseableJson /\ pc # "parse" =>
        /\ ret.op = "synthesizePosts" /\ ret.threw
        /\ events = <<>>
        /\ \A k \in DOMAIN logs : logs[k] = ErrorLog
        /\ pc = "done" => logs = <<ErrorLog>>

C11_Witness ==
    /\ NoParseableJson
    /\ match(response.text).found
    /\ pc = "done"
    /\ logs = <<ErrorLog>>
    /\ events = <<>>

EventTypes == {"traffic", "power", "celebration", "emergency", "construction", "weather"}

Severities == {"low", "medium", "high", "critical"}

\* the member of the object the collaborator sent
Reported(key) == get(JSONparse(match(response.text).text).val, key)

\* C12 as stated: every event synthesizePosts returns has its eventType in
\* the six event types and its severity in the four severities; an absent
\* or invalid eventType has become emergency, an absent or invalid severity
\* medium.
C12_EventTypeAndSeverityInEnum ==
    SynthesizeReturned =>
        /\ ret.val.eventType \in {Str(t) : t \in EventTypes}
        /\ ret.val.severity \in {Str(v) : v \in Severities}
        /\ Reported("eventType") \notin {Str(t) : t \in EventTypes} =>
               ret.val.eventType = Str("emergency")
        /\ Reported("severity") \notin {Str(v) : v \in Severities} =>
               ret.val.severity = Str("medium")

(***************************************************************************)
(* Properties of determineTrend and of the two parsers (SpecSentiment)     *)
(***************************************************************************)
\* a score of the model in hundredths
Hundredths(x) == (x.n * 100) \div x.d

InRange(x, lo, hi) == ~IsNaN(x) /\ FracLeq(lo, x) /\ FracLeq(x, hi)

\* C20 as stated: every parsed sentiment result has its score in [-1, 1], its
\* confidence in [0, 1], its classification among the three classifications,
\* at most 8 keywords and a summary of at most 100 characters; every parsed
\* image analysis has its category among the categories, an integer
\* severityScore in [1, 5], its safetyLevel among the safety levels and its
\* confidence in [0, 1].
C20_ParsedFieldsInRange ==
    /\ Returned("parseSentimentResponse") =>
          /\ InRange(ret.val.score, Frac(-1, 1), Frac(1, 1))
          /\ InRange(ret.val.confidence, Frac(0, 1), Frac(1, 1))
          /\ ret.val.classification \in Classifications
          /\ Len(ret.val.keywords) <= 8
          /\ Len(ret.val.summary) <= 100
    /\ Returned("parseAnalysisResponse") =>
          /\ ret.val.category \in Categories
          /\ ret.val.severityScore \in 1..5
          /\ ret.val.safetyLevel \in SafetyLevels
          /\ InRange(ret.val.confidence, Frac(0, 1), Frac(1, 1))

(***************************************************************************)
(* Properties of checkForSentimentAlerts (SpecAlerts)                      *)
(***************************************************************************)
\* x < h/100 and x > h/100 of a number x, in integers
BelowHundredths(x, h) == ~IsNaN(x) /\ x.n * 100 < h * x.d

AboveHundredths(x, h) == ~IsNaN(x) /\ x.n * 100 > h * x.d

\* the two rules as section 4.5 of the specification words them
NegativeAreas(results) ==
    {results[k].area : k \in {j \in DOMAIN results :
        /\ BelowHundredths(results[j].sentiment.score, -70)
        /\ AboveHundredths(results[j].sentiment.confidence, 80)}}

DeclineAreas(results) ==
    {results[k].area : k \in {j \in DOMAIN results :
        /\ results[j].trendDirection = "down"
        /\ BelowHundredths(results[j].sentiment.score, -50)}}

ExpectedAlerts(results) ==
    {<<a, "negative_sentiment", "high">> : a \in NegativeAreas(results)}
    \cup {<<a, "sentiment_decline", "medium">> : a \in DeclineAreas(results)}

EmittedAlerts == {<<alerts[k].area, alerts[k].type, alerts[k].severity>> : k \in DOMAIN alerts}

\* C16: when checkForSentimentAlerts returns, the alerts it emitted are
\* exactly one negative_sentiment alert of severity high for each area of the
\* batch with score < -0.7 and confidence > 0.8 and one sentiment_decline
\* alert of severity medium for each area with trendDirection down and
\* score < -0.5, each rule on its own; until then it has emitted none but
\* these.
C16_AlertsExactlyByRule ==
    /\ EmittedAlerts \subseteq ExpectedAlerts(sentimentResults)
    /\ pc = "checked" =>
          /\ EmittedAlerts = ExpectedAlerts(sentimentResults)
          /\ Len(alerts) = Cardinality(ExpectedAlerts(sentimentResults))

\* a batch of two areas: the first got both alerts, the second none
C16_Witness ==
    /\ pc = "checked"
    /\ Len(sentimentResults) = 2
    /\ Len(alerts) = 2
    /\ alerts[1].area = sentimentResults[1].area
    /\ alerts[1].type = "negative_sentiment"
    /\ alerts[2].area = sentimentResults[1].area
    /\ alerts[2].type = "sentiment_decline"

(***************************************************************************)
(* Properties of the sweep (SpecSweep)                                     *)
(***************************************************************************)
\* C13 as stated: the score of an area is the combination
\* social.score * s/(s + r + 1) + report.score * r/(s + r + 1) of two scores
\* in [-1, 1], s and r being the numbers of social posts and of reports:
\* such two scores exist exactly when |score| * (s + r + 1) <= s + r, which
\* makes the score 0 when both numbers are 0.
C13_ScoreIsWeightedCombination ==
    \A k \in DOMAIN sentimentResults :
        LET result == sentimentResults[k]
            n == result.sources.social + result.sources.userReports
        IN  /\ ~IsNaN(result.sentiment.score)
            /\ Abs(result.sentiment.score.n) * (n + 1) <= n * result.sentiment.score.d

\* C14 as stated: in every AreaSentiment of the sweep the classification is
\* positive exactly when score > 0.2, negative exactly when score < -0.2 and
\* neutral otherwise.
C14_ClassificationByScore ==
    \A k \in DOMAIN sentimentResults :
        LET sentiment == sentimentResults[k].sentiment
        IN  /\ sentiment.classification = "positive" <=>
                  AboveHundredths(sentiment.score, 20)
            /\ sentiment.classification = "negative" <=>
                  BelowHundredths(sentiment.score, -20)
            /\ sentiment.classification \in Classifications

\* C17 as stated: when the processing of an area has thrown in a run, the
\* records of the other areas analysed in that run are stored all the same.
C17_FailedAreaDoesNotBlock ==
    pc = "caught" /\ ret.op \in {"fetchSocialPostsForArea", "fetchUserReportsForArea"} =>
        \A k \in DOMAIN sentimentResults :
            heatmap[docId(sentimentResults[k].area)] = Doc(sentimentResults[k])

\* the score stored for an area, 0 when none is
StoredScore(areaName) ==
    LET doc == heatmap[docId(areaName)]
    IN  IF doc.exists THEN doc.data.sentiment.score ELSE Frac(0, 1)

\* C18 as stated: the trendDirection of an area in a run is
\* determineTrend(score of this run, score stored for the area by the most
\* recent earlier run that stored one), the baseline being 0 when none was
\* stored.  Until the commit of the run the collection holds what the
\* earlier runs stored.
C18_TrendAgainstStoredScore ==
    pc \in {"fetch", "trend"} =>
        \A k \in DOMAIN sentimentResults :
            LET result == sentimentResults[k]
            IN  result.trendDirection =
                    determineTrend(result.sentiment.score, StoredScore(result.area))

\* the negative_sentiment alerts of an area written in a run
NegativeAlerts(collection, areaName, timestamp) ==
    {k \in DOMAIN collection :
        /\ collection[k].type = "negative_sentiment"
        /\ collection[k].area = areaName
        /\ collection[k].timestamp = timestamp}

\* C19: alerts are not de-duplicated across runs: no step removes an alert,
\* and whenever checkForSentimentAlerts returns in a run, every area whose
\* result of that run has score < -0.7 and confidence > 0.8 has got exactly
\* one negative_sentiment alert of that run, whatever the earlier runs
\* emitted; k such runs leave k alerts, one per run.
C19_AlertEveryRun ==
    [][/\ Len(alerts') >= Len(alerts)
       /\ SubSeq(alerts', 1, Len(alerts)) = alerts
       /\ pc' = "checked" =>
             \A a \in NegativeAreas(sentimentResults') :
                 Cardinality(NegativeAlerts(alerts', a, run')) = 1]_vars

\* an area has an alert of the first run and one of the second
C19_Witness ==
    /\ pc = "checked"
    /\ run = 2
    /\ \E a \in NegativeAreas(sentimentResults) :
          /\ Cardinality(NegativeAlerts(alerts, a, 1)) = 1
          /\ Cardinality(NegativeAlerts(alerts, a, 2)) = 1

(***************************************************************************)
(* Properties of the analyzeUploadedImage trigger (SpecImage)              *)
(***************************************************************************)
\* the records of a collection with a given value in a given field
Records(collection, field, value) ==
    {k \in DOMAIN collection : collection[k][field] = value}

\* C21 as stated: when the trigger has ended for an upload under
\* user-reports/ with an image content type whose moderation result is
\* appropriate, the events collection holds exactly one record (status
\* monitoring when the action is review, active otherwise), the log holds an
\* image_analysis record, and there is a high_priority_report notification
\* exactly when severityScore >= 4.
C21_AppropriateImageBecomesEvent ==
    /\ pc \in {"done", "failed"}
    /\ moderationResult # None
    /\ moderationResult.isAppropriate
    => /\ Len(events) = 1
       /\ events[1].status = IF moderationResult.action = "review"
                             THEN "monitoring" ELSE "active"
       /\ Records(logs, "processingType", "image_analysis") # {}
       /\ Records(notifications, "type", "high_priority_report") # {}
             <=> analysisResult.severityScore >= 4

\* the description holds none of the inappropriate keywords
NoKeyword(description) ==
    \A k \in DOMAIN inappropriateKeywords :
        ~includes(toLowerCase(description), Characters(inappropriateKeywords[k]))

\* C22 as stated: an analysis result with severityScore >= 4, safetyLevel
\* emergency, confidence >= 0.5 and a description without any of the
\* inappropriate keywords is given flags = [high_priority_emergency],
\* isAppropriate = true and action = approve by checkImageSafety.
C22_EmergencyApproved ==
    /\ moderationResult # None
    /\ analysisResult.severityScore >= 4
    /\ analysisResult.safetyLevel = "emergency"
    /\ ~IsNaN(analysisResult.confidence)
    /\ FracLeq(Frac(1, 2), analysisResult.confidence)
    /\ NoKeyword(analysisResult.description)
    => /\ moderationResult.flags = <<HighPriorityEmergency>>
       /\ moderationResult.isAppropriate
       /\ moderationResult.action = "approve"

(***************************************************************************)
(* detectDuplicates against its seed-only description (SpecDup)            *)
(***************************************************************************)
\* the members of a set of positions in increasing order
RECURSIVE Ascending(_)
Ascending(S) ==
    IF S = {} THEN <<>> ELSE <<Min(S)>> \o Ascending(S \ {Min(S)})

\* The seed-only reference from position i on, `assigned` being the
\* positions that are a seed or a member already: the post at an unassigned
\* position is a seed, its members are the unassigned posts that are
\* duplicates of the seed, and a seed without members gives no group.
RECURSIVE SeedOnlyReference(_, _, _)
SeedOnlyReference(all, i, assigned) ==
    IF i > Len(all) THEN <<>>
    ELSE IF i \in assigned THEN SeedOnlyReference(all, i + 1, assigned)
    ELSE LET members == {j \in DOMAIN all \ (assigned \cup {i}) :
                            areDuplicates(all[i], all[j])}
             order == Ascending(members)
             group == <<all[i].id>> \o [k \in DOMAIN order |-> all[order[k]].id]
         IN  (IF members = {} THEN <<>> ELSE <<group>>)
             \o SeedOnlyReference(all, i + 1, assigned \cup {i} \cup members)

\* C23: detectDuplicates returns what the seed-only reference gives: each
\* unassigned post in input order is a seed, the members of its group are
\* exactly the unassigned posts that are duplicates of the seed, in input
\* order after the seed, and the seed of a discarded group of one is never
\* a member of a later group.
C23_EqualsSeedOnlyReference ==
    Returned("detectDuplicates") => ret.val = SeedOnlyReference(posts, 1, {})

\* C23 witness: a group of three whose second and third member are not
\* duplicates of each other has been returned
C23_Witness ==
    /\ Returned("detectDuplicates")
    /\ ret.val = SeedOnlyReference(posts, 1, {})
    /\ \E g \in DOMAIN ret.val :
          /\ Len(ret.val[g]) = 3
          /\ ~areDuplicates(PostById(posts, ret.val[g][2]),
                            PostById(posts, ret.val[g][3]))

\* the group (its position in gs) that holds the id, 0 when none does
GroupOf(gs, id) ==
    IF \E g \in DOMAIN gs : id \in Range(gs[g])
    THEN CHOOSE g \in DOMAIN gs : id \in Range(gs[g])
    ELSE 0

\* C24: grouping is not transitive.  Two members of a returned group that
\* are not duplicates of each other are both non-seed members that are
\* duplicates of the seed; two duplicates that are in different returned
\* groups are apart because the one in the earlier group is not its seed
\* (it was absorbed by that earlier seed).  Both cases occur (C24_Witness).
C24_NotTransitive ==
    Returned("detectDuplicates") =>
        /\ \A g \in DOMAIN ret.val : \A a \in DOMAIN ret.val[g], b \in DOMAIN ret.val[g] :
              LET seed == PostById(posts, ret.val[g][1])
                  p == PostById(posts, ret.val[g][a])
                  q == PostById(posts, ret.val[g][b])
              IN  a # b /\ ~areDuplicates(p, q) =>
                      /\ a # 1 /\ b # 1
                      /\ areDuplicates(seed, p) /\ areDuplicates(seed, q)
        /\ \A g \in DOMAIN ret.val, h \in DOMAIN ret.val :
              \A a \in DOMAIN ret.val[g], b \in DOMAIN ret.val[h] :
                  /\ g < h
                  /\ areDuplicates(PostById(posts, ret.val[g][a]),
                                   PostById(posts, ret.val[h][b]))
                  => a # 1

\* C24 witness: one input with both cases: a group with two members that
\* are not duplicates of each other, and two duplicates in different groups
C24_Witness ==
    /\ Returned("detectDuplicates")
    /\ \E g \in DOMAIN ret.val : \E a \in DOMAIN ret.val[g], b \in DOMAIN ret.val[g] :
          /\ a # b
          /\ ~areDuplicates(PostById(posts, ret.val[g][a]),
                            PostById(posts, ret.val[g][b]))
    /\ \E p \in DOMAIN posts, q \in DOMAIN posts :
          /\ areDuplicates(posts[p], posts[q])
          /\ GroupOf(ret.val, posts[p].id) # 0
          /\ GroupOf(ret.val, posts[q].id) # 0
          /\ GroupOf(ret.val, posts[p].id) # GroupOf(ret.val, posts[q].id)

(***************************************************************************)
(* The response of the collaborator around its JSON object (SpecSynth)     *)
(***************************************************************************)
\* the first top-level {...} block of a text that holds an opening brace
\* followed by a closing one: from the first opening brace to the first
\* closing brace after it (the objects of the model hold no nested object)
FirstBlock(text) ==
    LET first == Min({k \in DOMAIN text : text[k].kind = "{"})
    IN  SubSeq(text, first,
               Min({k \in DOMAIN text : k > first /\ text[k].kind = "}"}))

\* the response is prose, then one valid JSON object, then any text
ProseObjectProse ==
    /\ response.status = "text"
    /\ \E k \in DOMAIN response.text :
          /\ response.text[k].kind = "{"
          /\ \A j \in 1..(k - 1) : response.text[j].kind = "prose"
          /\ \E c \in DOMAIN response.text :
                /\ c > k
                /\ response.text[c].kind = "}"
                /\ \A j \in (k + 1)..(c - 1) : response.text[j].kind = "member"

\* C25 as stated: a response made of prose, one valid JSON object and more
\* prose is parsed successfully from that object alone (here: the event's
\* confidence is the one of that object, capped by the location confidence),
\* also when the trailing prose holds '{' or '}'.  The posts have a location,
\* so that nothing but the parsing can fail.
C25_FirstBlockParsed ==
    /\ pc \notin {"start", "generate", "parse"}
    /\ ProseObjectProse
    /\ ~inferCentralLocation(posts).threw
    => /\ ret.op = "synthesizePosts"
       /\ ~ret.threw
       /\ ret.val.confidence =
              MathMin(orElse(get(JSONparse(FirstBlock(response.text)).val,
                                 "confidence"),
                             Num(7, 10)),
                      [type |-> "number", num |-> LocationConfidence])

\* C27 as stated: a run of the trigger on 3 or more posts ends with one
\* event record and one social_synthesis log record, or with no event
\* record and one social_synthesis_error log record; an error log record
\* never stands beside an event record of the run, whichever step failed.
C27_EventOrErrorLog ==
    pc \in {"done", "failed"} /\ Len(posts) >= 3 =>
        \/ /\ Len(events) = 1
           /\ Len(logs) = 1
           /\ logs[1].processingType = "social_synthesis"
        \/ /\ events = <<>>
           /\ logs = <<ErrorLog>>

(***************************************************************************)
(* The fallback sentiment in the sweep (SpecSweep)                         *)
(***************************************************************************)
\* the collaborator call failed, or its answer holds no parseable object
FailedAnswer(answer) ==
    \/ answer.status = "error"
    \/ ~match(answer.text).found
    \/ JSONparse(match(answer.text).text).threw

\* score 0, neutral, confidence 0.3
IsFallback(sentiment) ==
    /\ sentiment.score = Frac(0, 1)
    /\ sentiment.classification = "neutral"
    /\ sentiment.confidence = Frac(3, 10)

\* C29: when the collaborator call or the parsing fails for an area, the
\* area gets the fallback sentiment (score 0, neutral, confidence 0.3); no
\* alert of the run is written for an area with that result; the commit of
\* the run stores the result in place of what was stored for the area; and
\* a run that finds it stored computes the area's trend against 0.
C29_FallbackStored ==
    [][/\ pc = "fetch" /\ pc' = "trend" /\ FailedAnswer(response') =>
             IsFallback(current'.sentiment)
       /\ \A k \in DOMAIN sentimentResults' :
             IsFallback(sentimentResults'[k].sentiment) =>
                 \A j \in DOMAIN alerts' :
                     ~(/\ alerts'[j].area = sentimentResults'[k].area
                       /\ alerts'[j].timestamp = run')
       /\ pc = "fetch" /\ pc' = "negative" =>
             \A k \in DOMAIN sentimentResults :
                 IsFallback(sentimentResults[k].sentiment) =>
                     heatmap'[docId(sentimentResults[k].area)] =
                         Doc(sentimentResults[k])
       /\ LET doc == heatmap[docId(CITY_AREAS[idx].name)]
          IN  /\ pc = "trend" /\ pc' = "fetch"
              /\ doc.exists
              /\ IsFallback(doc.data.sentiment)
              => sentimentResults'[Len(sentimentResults')].trendDirection =
                     determineTrend(current.sentiment.score, Frac(0, 1))]_vars

\* C29 witness: the second run has committed the fallback result of an area
\* in place of the score of the first run, which had raised an alert
C29_Witness ==
    /\ run = 2
    /\ pc = "negative"
    /\ \E k \in DOMAIN sentimentResults :
          /\ IsFallback(sentimentResults[k].sentiment)
          /\ heatmap[docId(sentimentResults[k].area)] = Doc(sentimentResults[k])
          /\ \E j \in DOMAIN alerts :
                /\ alerts[j].area = sentimentResults[k].area
                /\ alerts[j].timestamp = 1
                /\ alerts[j].type = "negative_sentiment"

(***************************************************************************)
(* Properties of analyzeSentimentManually (SpecManual)                     *)
(***************************************************************************)
\* C30 as stated: a call by an authenticated user with a name that is not
\* one of the configured areas fails with code invalid-argument before any
\* data is fetched or the collaborator is called; an unauthenticated call
\* fails with code unauthenticated before anything else happens.
C30_RejectedCalls ==
    pc \in {"thrown", "returned"} =>
        /\ ~current.auth =>
              /\ ret.threw
              /\ ret.code = "unauthenticated"
              /\ current.social = None /\ current.userReports = None
              /\ response = NoResponse
        /\ current.auth /\ getAreaBounds(current.areaName) = Null =>
              /\ ret.threw
              /\ ret.code = "invalid-argument"
              /\ current.social = None /\ current.userReports = None
              /\ response = NoResponse

(***************************************************************************)
(* The trend baseline under overlapping and serialised runs (SpecOverlap)  *)
(***************************************************************************)
\* the other one of the two runs
Other(i) == CHOOSE j \in Invocations : j # i

\* run i commits in this step
Commits(i) == invocations[i].pc = "fetch" /\ invocations'[i].pc = "negative"

\* every trend that run i is about to store is relative to the score that
\* is stored for the area at that time
BaselineIsStored(i) ==
    \A k \in DOMAIN invocations[i].sentimentResults :
        LET result == invocations[i].sentimentResults[k]
        IN  result.trendDirection =
                determineTrend(result.sentiment.score, StoredScore(result.area))

\* C26 as stated, its second part: when the runs are serialised (here: the
\* other run has not taken a step yet when this one commits), every trend a
\* run stores is relative to the score the run before it left in the
\* collection.  (The first part, the lost update under overlap, is the
\* reachability of a commit without BaselineIsStored.)
C26_SerialisedBaseline ==
    [][\A i \in Invocations :
          Commits(i) /\ invocations[Other(i)] = Started => BaselineIsStored(i)]_vars

\* run i has committed its batch
Committed(i) ==
    \/ invocations[i].pc \in {"negative", "decline", "checked"}
    \/ invocations[i].pc = "caught" /\ invocations[i].ret.op = "checkForSentimentAlerts"

\* run i writes an alert in this step
WritesAlert(i) == invocations'[i] # invocations[i] /\ alerts' # alerts

\* the alerts of run i
AlertsOf(collection, i) == {k \in DOMAIN collection : collection[k].timestamp = i}

\* C28 as stated: a run writes alerts only after it has committed its
\* batch, a run whose commit failed writes none, and every alert written
\* carries the score that is stored for its area at the time of the write.
C28_AlertScoreIsStored ==
    [][\A i \in Invocations :
          /\ WritesAlert(i) =>
                /\ Committed(i)
                /\ alerts'[Len(alerts')].score =
                       StoredScore(alerts'[Len(alerts')].area)
          /\ invocations'[i].ret.op = "commit" => AlertsOf(alerts', i) = {}]_vars

\* C28 as amended: a run writes alerts only after it has committed its
\* batch, a run whose commit failed writes none, and every alert written
\* carries the score its own run committed for the area, which is the score
\* stored at the time of the write unless the other run has committed too.
C28_AlertAfterOwnCommit ==
    [][\A i \in Invocations :
          /\ WritesAlert(i) =>
                LET alert == alerts'[Len(alerts')]
                    result == invocations[i].sentimentResults[invocations[i].idx]
                IN  /\ Committed(i)
                    /\ alert.timestamp = i
                    /\ alert.area = result.area
                    /\ alert.score = result.sentiment.score
                    /\ \/ alert.score = StoredScore(alert.area)
                       \/ Committed(Other(i))
          /\ invocations'[i].ret.op = "commit" => AlertsOf(alerts', i) = {}]_vars

\* C28 witness: one run has written an alert after its commit, the commit
\* of the other run was rejected and that run has written none
C28_Witness ==
    \E i \in Invocations :
        /\ Committed(i)
        /\ AlertsOf(alerts, i) # {}
        /\ \E k \in AlertsOf(alerts, i) : alerts[k].score = StoredScore(alerts[k].area)
        /\ invocations[Other(i)].pc = "caught"
        /\ invocations[Other(i)].ret.op = "commit"
        /\ AlertsOf(alerts, Other(i)) = {}

====
